---------------------------- MODULE Spec2Model ----------------------------
(***************************************************************************)
(* State-machine model of the CVODES integrator (cvodes/source/cvodes.c):  *)
(* the optional-input setters, CVodeMalloc / CVodeReInit, the sensitivity  *)
(* initialisation, the top-level driver CVode, the step controller CVStep  *)
(* with its retry machinery, and the Newton / functional correctors seen   *)
(* through the linear-solver protocol.                                     *)
(*                                                                         *)
(* Numerical conventions of the model.  Time and step sizes live on an     *)
(* integer grid (tn, h, hprime, tout, tstop are integers in grid units);   *)
(* step ratios (eta) are exact rationals <<num, den>>.  Vector contents    *)
(* are tracked by provenance (records of kind "y", "pred", "dky", ...),    *)
(* so "yout = zn[0]" means that the copy N_VScale(ONE, zn[0], yout) was    *)
(* the last write to yout.  The outcomes of the user right-hand side, of   *)
(* the norms (convergence test, error test, step-size estimate) and of     *)
(* the linear solver are inputs chosen by the environment.                 *)
(***************************************************************************)
EXTENDS Integers, Sequences, FiniteSets, TLC

(***************************************************************************)
(* Bounds of the model (not program constants).                            *)
(***************************************************************************)
\* cap on the accepted-step counter in the long runs (stop time, SLDET)
MaxNst == 14
\* cap on the accepted-step counter in the short runs
MaxNstShort == 4
\* cap on the corrector iterations explored when maxcor does not stop them
MaxIter == 3
\* 1/uround of the modelled machine, in grid arithmetic
URoundInv == 6400

(***************************************************************************)
(* Program constants (cvodes.c, "CVODES Routine-Specific Constants").      *)
(***************************************************************************)
MXSTEP_DEFAULT == 500
FUZZ_FACTOR == 100
ETAMX1 == 10000
ETAMX2 == 10
ETAMX3 == 10
SMALL_NST == 10
MXNCF == 10
MXNEF == 7
MXNEF1 == 3
SMALL_NEF == 2
LONG_WAIT == 10
NLS_MAXCOR == 3
MSBP == 20
ADAMS_Q_MAX == 12
BDF_Q_MAX == 5
THRESH == <<3, 2>>
ETAMXF == <<1, 5>>
ETAMIN == <<1, 10>>
ETACF == <<1, 4>>
ONEPSM == <<1000001, 1000000>>
HMIN_DEFAULT == 0
HMAX_INV_DEFAULT == <<0, 1>>

(***************************************************************************)
(* Exact rational arithmetic on pairs <<num, den>>, den > 0.               *)
(***************************************************************************)
Abs(x) == IF x < 0 THEN -x ELSE x

RECURSIVE GCD(_, _)
GCD(a, b) == IF b = 0 THEN a ELSE GCD(b, a % b)

RNorm(n, d) ==
  LET s == IF d < 0 THEN -1 ELSE 1
      g == GCD(Abs(n), Abs(d))
  IN  <<(s * n) \div g, (s * d) \div g>>

RInt(k) == <<k, 1>>
RMul(a, b) == RNorm(a[1] * b[1], a[2] * b[2])
RDiv(a, b) == RNorm(a[1] * b[2], a[2] * b[1])
RLt(a, b) == a[1] * b[2] < b[1] * a[2]
RLe(a, b) == a[1] * b[2] <= b[1] * a[2]
RMax(a, b) == IF RLt(a, b) THEN b ELSE a
RMin(a, b) == IF RLt(b, a) THEN b ELSE a
\* h * eta stays on the integer grid
OnGrid(hh, e) == (Abs(hh) * e[1]) % e[2] = 0
\* the product h * eta as a grid value
HTimes(hh, e) == (IF hh < 0 THEN -1 ELSE 1) * ((Abs(hh) * e[1]) \div e[2])

(***************************************************************************)
(* State: the fields of CVodeMemRec that drive control flow, the caller's  *)
(* arguments of the CVode call in progress, and the position in it.        *)
(***************************************************************************)
VARIABLES
  \* arguments of CVodeCreate and optional inputs
  lmm, iter, qmax, mxstep, sldeton, hin, hmin, hmax_inv, tstop, tstopset,
  maxcor, maxnef, maxncf,
  \* initialisation flags and sensitivity configuration
  MallocDone, sensMallocDone, sensi, ism, ifS, Ns,
  \* linear solver: the four routines are attached, lsetup is non-trivial,
  \* and what the solver has been asked so far in this CVode call
  linit, setupNonNull, lmem,
  \* integrator state
  tn, h, hprime, hscale, eta, etamax, q, qprime, L, qwait, nst, nscon, hu,
  jcur, zn0, etaqm1, nstlp,
  \* the CVode call in progress: arguments, outputs, locals
  tout, itask, yout, tret, nstloc, istate,
  \* ghost: nst when the CVode call in progress was entered
  nst0,
  \* locals of CVStep and of the correctors
  saved_t, ncf, nef, ncfS, nefS, ncfS1, nflag, mcor, callSetup, convfail,
  is,
  \* position in the code, and the last configuration call with its result
  pc, api,
  \* quadrature flags, ownership flags of the sensitivity buffers, the blocks
  \* of each storage group that are live (heap) and that the integrator's
  \* pointers refer to (own), whether freed or foreign storage was touched,
  \* and how often the attached solver's linit and lfree have been called
  quad, quadMallocDone, abstolSalloc, stgr1alloc, heap, own, memerr, lcalls,
  \* numbers: one component of each column of the history arrays zn, znQ and
  \* znS, followed in the runs about the history array only (the stepping
  \* actions follow zn[0] by provenance, in zn0); the caller's parameter
  \* array p (cv_p), the local psave of CVSensRhs1DQ and the position dq in
  \* the call of CVSensRhs1DQ in progress; gamma and gammap by
  \* provenance (the h and q they were computed from), gamrat and crate by
  \* range, all four followed under Newton iteration, where they are read
  zn, cv_p, psave, dq, gamma, gammap, gamrat, crate,
  \* the window ssdat[1..5] of CVBDFStab, each row by provenance: the
  \* accepted step that recorded it, with the order and step size of that step
  ssdat,
  \* the correction last stored by N_VScale(ONE, acor, zn[qmax]), by
  \* provenance: the index of the column it was written to (qmax at that
  \* time) and the accepted step whose acor it is; saved_tq5 likewise: the
  \* accepted step whose tq[5] it holds (-1: of no step of this problem)
  znqmax, saved_tq5

optVars == <<lmm, iter, qmax, mxstep, sldeton, hin, hmin, hmax_inv, tstop,
             tstopset, maxcor, maxnef, maxncf>>
sensVars == <<sensMallocDone, sensi, ism, ifS, Ns>>
linVars == <<linit, setupNonNull, lmem>>
nordVars == <<tn, h, hprime, hscale, eta, etamax, q, qprime, L, qwait, nst,
              nscon, hu, jcur, zn0, etaqm1, nstlp>>
callVars == <<tout, itask, yout, tret, nstloc, istate, nst0>>
stepVars == <<saved_t, ncf, nef, ncfS, nefS, ncfS1, nflag, mcor, callSetup,
              convfail, is>>
memVars == <<quad, quadMallocDone, abstolSalloc, stgr1alloc, heap, own,
             memerr, lcalls>>
dqVars == <<cv_p, psave, dq>>
gamVars == <<gamma, gammap, gamrat, crate>>
winVars == <<ssdat, znqmax, saved_tq5>>
numVars == <<zn, dqVars, gamVars, winVars>>
vars == <<optVars, MallocDone, sensVars, linVars, nordVars, callVars,
          stepVars, pc, api, memVars, numVars>>

(***************************************************************************)
(* Vector contents by provenance.                                          *)
(*   "y"    the solution accepted after k steps (k = 0: y0)                *)
(*   "pred" the prediction made from it                                    *)
(*   "dky"  the interpolant of the history at tn + dt                      *)
(*   "iter" an iterate left by the corrector (cv_y aliases yout)           *)
(*   "user" the caller's own contents; "null" a NULL pointer               *)
(***************************************************************************)
Vec(kind, k, dt) == [kind |-> kind, k |-> k, dt |-> dt]
UserVec == Vec("user", 0, 0)
NullVec == Vec("null", 0, 0)
IterVec == Vec("iter", 0, 0)

Api(fn, arg, flag) == [fn |-> fn, arg |-> arg, flag |-> flag]
ApiNone == Api("none", 0, "SUCCESS")
NoLmem == [fatal |-> "none", after |-> FALSE]
NoNcfS1 == [i \in 1..2 |-> 0]
\* storage groups: state vectors, quadrature vectors, sensitivity vectors,
\* the internal sensitivity tolerance buffer, the STAGGERED1 counter arrays
Groups == {"vec", "quad", "sens", "atol", "stgr1"}
NoCalls == [linit |-> 0, lfree |-> 0, null |-> FALSE]
\* no numbers followed in the history arrays; gamma not yet computed
NoZn == [a \in {"zn", "znQ", "znS"} |-> <<>>]
NoGamma == <<0, 0>>
\* no call of CVSensRhs1DQ is in progress
NoDq == [method |-> "none", which |-> 0, skipFP |-> FALSE, Delta |-> 0,
         nfel |-> 0]

(***************************************************************************)
(* Storage.  heap[g] counts the live blocks of group g; own[g] counts the  *)
(* live blocks the integrator's pointers of group g refer to, 0 when they  *)
(* have never been set and -1 when they refer to released blocks.  An      *)
(* allocation overwrites the pointers; a release walks them with the       *)
(* current qmax, so it touches released or unset storage when own[g] <= 0  *)
(* and leaves behind the blocks above the current qmax.                    *)
(***************************************************************************)
Mem == [heap |-> heap, own |-> own, err |-> memerr]
MAlloc(m, g, n) == [m EXCEPT !.heap[g] = @ + n, !.own[g] = n]
MFree(m, g, n) ==
  IF m.own[g] <= 0
    THEN [m EXCEPT !.err = TRUE, !.own[g] = -1]
    ELSE [m EXCEPT !.heap[g] = @ - (IF n < m.own[g] THEN n ELSE m.own[g]),
                   !.own[g] = -1]
SetMem(m) == heap' = m.heap /\ own' = m.own /\ memerr' = m.err
\* ewt, acor, tempv, ftemp and zn[0..qmax]; the same count for the
\* quadrature and the sensitivity groups
NVecs == qmax + 5

(***************************************************************************)
(* The window of CVBDFStab.  A row of ssdat holds three numbers computed   *)
(* from zn[q], zn[q-1], acnrm and tq[5] of the step just completed; the    *)
(* model keeps, for each row, the number of that step, its order and its   *)
(* step size.  CVodeMalloc and CVodeReInit fill the window with ZERO.      *)
(***************************************************************************)
ZeroRow == <<0, 0, 0>>
NoSsdat == [i \in 1..5 |-> ZeroRow]

\* no correction has been stored in the vectors since they were allocated
NoSaved == [col |-> -1, nst |-> -1]

\* ssdat[i] = ssdat[i-1] for i = 5..2, then ssdat[1] = row
SsdatPushed(win, row) == [i \in 1..5 |-> IF i = 1 THEN row ELSE win[i - 1]]

(***************************************************************************)
(* CVodeCreate: the state after construction.  lmm and iter are its        *)
(* arguments.                                                              *)
(***************************************************************************)
CVodeCreate(lmm0, iter0) ==
  /\ lmm = lmm0 /\ iter = iter0
  /\ qmax = (IF lmm0 = "ADAMS" THEN ADAMS_Q_MAX ELSE BDF_Q_MAX)
  /\ mxstep = MXSTEP_DEFAULT
  /\ sldeton = FALSE
  /\ hin = 0
  /\ hmin = HMIN_DEFAULT
  /\ hmax_inv = HMAX_INV_DEFAULT
  /\ tstop = 0 /\ tstopset = FALSE
  /\ maxcor = NLS_MAXCOR
  /\ maxnef = MXNEF
  /\ maxncf = MXNCF
  /\ MallocDone = FALSE /\ sensMallocDone = FALSE /\ sensi = FALSE
  /\ ism = "NONE" /\ ifS = "ONESENS" /\ Ns = 0
  /\ linit = FALSE /\ setupNonNull = FALSE /\ lmem = NoLmem
  /\ tn = 0 /\ h = 0 /\ hprime = 0 /\ hscale = 0 /\ eta = RInt(1)
  /\ etamax = ETAMX1 /\ q = 1 /\ qprime = 1 /\ L = 2 /\ qwait = 2
  /\ nst = 0 /\ nscon = 0 /\ hu = 0 /\ jcur = FALSE
  /\ zn0 = NullVec /\ etaqm1 = RInt(0) /\ nstlp = 0
  /\ tout = 0 /\ itask = "NORMAL" /\ yout = UserVec /\ tret = 0
  /\ nstloc = 0 /\ istate = "NONE" /\ nst0 = 0
  /\ saved_t = 0 /\ ncf = 0 /\ nef = 0 /\ ncfS = 0 /\ nefS = 0
  /\ ncfS1 = NoNcfS1 /\ nflag = "FIRST_CALL" /\ mcor = 0
  /\ callSetup = FALSE /\ convfail = "NO_FAILURES" /\ is = 0
  /\ pc = "idle" /\ api = ApiNone
  /\ quad = FALSE /\ quadMallocDone = FALSE
  /\ abstolSalloc = FALSE /\ stgr1alloc = FALSE
  /\ heap = [g \in Groups |-> 0] /\ own = [g \in Groups |-> 0]
  /\ memerr = FALSE /\ lcalls = NoCalls
  /\ zn = NoZn /\ cv_p = <<>> /\ psave = 0 /\ dq = NoDq
  /\ gamma = NoGamma /\ gammap = NoGamma /\ gamrat = "ONE" /\ crate = "ONE"
  /\ ssdat = NoSsdat
  /\ znqmax = NoSaved /\ saved_tq5 = -1

Init == \E lmm0 \in {"ADAMS", "BDF"}, iter0 \in {"FUNCTIONAL", "NEWTON"} :
          CVodeCreate(lmm0, iter0)

(***************************************************************************)
(* Optional input functions.  Each is one call: it validates its argument, *)
(* stores it or not, and returns a flag (recorded in api).                 *)
(***************************************************************************)
Idle == pc = "idle"
NoOptChange(keep) == /\ UNCHANGED <<MallocDone, sensVars, linVars, nordVars,
                                    callVars, stepVars, pc, memVars, numVars>>
                     /\ UNCHANGED keep

CVodeSetMaxOrd(maxord) ==
  /\ Idle
  /\ IF maxord <= 0 \/ maxord > qmax
       THEN /\ api' = Api("CVodeSetMaxOrd", maxord, "CVS_ILL_INPUT")
            /\ qmax' = qmax
       ELSE /\ api' = Api("CVodeSetMaxOrd", maxord, "SUCCESS")
            /\ qmax' = maxord
  /\ NoOptChange(<<lmm, iter, mxstep, sldeton, hin, hmin, hmax_inv, tstop,
                   tstopset, maxcor, maxnef, maxncf>>)

CVodeSetMaxNumSteps(mxsteps) ==
  /\ Idle
  /\ IF mxsteps <= 0
       THEN /\ api' = Api("CVodeSetMaxNumSteps", mxsteps, "CVS_ILL_INPUT")
            /\ mxstep' = mxstep
       ELSE /\ api' = Api("CVodeSetMaxNumSteps", mxsteps, "SUCCESS")
            /\ mxstep' = mxsteps
  /\ NoOptChange(<<lmm, iter, qmax, sldeton, hin, hmin, hmax_inv, tstop,
                   tstopset, maxcor, maxnef, maxncf>>)

CVodeSetStabLimDet(sldet) ==
  /\ Idle
  /\ IF lmm # "BDF"
       THEN /\ api' = Api("CVodeSetStabLimDet", sldet, "CVS_ILL_INPUT")
            /\ sldeton' = sldeton
       ELSE /\ api' = Api("CVodeSetStabLimDet", sldet, "SUCCESS")
            /\ sldeton' = sldet
  /\ NoOptChange(<<lmm, iter, qmax, mxstep, hin, hmin, hmax_inv, tstop,
                   tstopset, maxcor, maxnef, maxncf>>)

CVodeSetInitStep(hin0) ==
  /\ Idle
  /\ api' = Api("CVodeSetInitStep", hin0, "SUCCESS")
  /\ hin' = hin0
  /\ NoOptChange(<<lmm, iter, qmax, mxstep, sldeton, hmin, hmax_inv, tstop,
                   tstopset, maxcor, maxnef, maxncf>>)

CVodeSetMinStep(hmin0) ==
  /\ Idle
  /\ IF hmin0 <= 0 \/ RLt(RInt(1), RMul(RInt(hmin0), hmax_inv))
       THEN /\ api' = Api("CVodeSetMinStep", hmin0, "CVS_ILL_INPUT")
            /\ hmin' = hmin
       ELSE /\ api' = Api("CVodeSetMinStep", hmin0, "SUCCESS")
            /\ hmin' = hmin0
  /\ NoOptChange(<<lmm, iter, qmax, mxstep, sldeton, hin, hmax_inv, tstop,
                   tstopset, maxcor, maxnef, maxncf>>)

CVodeSetMaxStep(hmax) ==
  /\ Idle
  /\ IF hmax <= 0 \/ RLt(RInt(1), RMul(RNorm(1, IF hmax = 0 THEN 1 ELSE hmax),
                                        RInt(hmin)))
       THEN /\ api' = Api("CVodeSetMaxStep", hmax, "CVS_ILL_INPUT")
            /\ hmax_inv' = hmax_inv
       ELSE /\ api' = Api("CVodeSetMaxStep", hmax, "SUCCESS")
            /\ hmax_inv' = RNorm(1, hmax)
  /\ NoOptChange(<<lmm, iter, qmax, mxstep, sldeton, hin, hmin, tstop,
                   tstopset, maxcor, maxnef, maxncf>>)

CVodeSetStopTime(tstop0) ==
  /\ Idle
  /\ api' = Api("CVodeSetStopTime", tstop0, "SUCCESS")
  /\ tstop' = tstop0 /\ tstopset' = TRUE
  /\ NoOptChange(<<lmm, iter, qmax, mxstep, sldeton, hin, hmin, hmax_inv,
                   maxcor, maxnef, maxncf>>)

CVodeSetMaxErrTestFails(maxnef0) ==
  /\ Idle
  /\ api' = Api("CVodeSetMaxErrTestFails", maxnef0, "SUCCESS")
  /\ maxnef' = maxnef0
  /\ NoOptChange(<<lmm, iter, qmax, mxstep, sldeton, hin, hmin, hmax_inv,
                   tstop, tstopset, maxcor, maxncf>>)

CVodeSetMaxConvFails(maxncf0) ==
  /\ Idle
  /\ api' = Api("CVodeSetMaxConvFails", maxncf0, "SUCCESS")
  /\ maxncf' = maxncf0
  /\ NoOptChange(<<lmm, iter, qmax, mxstep, sldeton, hin, hmin, hmax_inv,
                   tstop, tstopset, maxcor, maxnef>>)

CVodeSetMaxNonlinIters(maxcor0) ==
  /\ Idle
  /\ api' = Api("CVodeSetMaxNonlinIters", maxcor0, "SUCCESS")
  /\ maxcor' = maxcor0
  /\ NoOptChange(<<lmm, iter, qmax, mxstep, sldeton, hin, hmin, hmax_inv,
                   tstop, tstopset, maxncf, maxnef>>)

(***************************************************************************)
(* The optional inputs on their own: every setter, called in any order     *)
(* with arguments inside and outside its documented range.                 *)
(***************************************************************************)
OptArgs == {-1, 0, 2}

NextOpt ==
  \/ \E v \in OptArgs : CVodeSetMaxOrd(v)
  \/ \E v \in OptArgs : CVodeSetMaxNumSteps(v)
  \/ \E v \in BOOLEAN : CVodeSetStabLimDet(v)
  \/ \E v \in OptArgs : CVodeSetMinStep(v)
  \/ \E v \in OptArgs : CVodeSetMaxStep(v)
  \/ \E v \in OptArgs : CVodeSetMaxErrTestFails(v)
  \/ \E v \in OptArgs : CVodeSetMaxConvFails(v)
  \/ \E v \in OptArgs : CVodeSetMaxNonlinIters(v)

SpecOpt == Init /\ [][NextOpt]_vars

(***************************************************************************)
(* CVodeMalloc.  Its arguments are reduced to what decides its outcome:    *)
(* "ok", "ill" (an argument check fails), "ewt" (the first error-weight     *)
(* test fails) or "mem" (CVAllocVectors fails).  t0 is the origin of the   *)
(* time grid.                                                              *)
(***************************************************************************)
CVodeMalloc(args) ==
  /\ Idle
  /\ IF args = "ok"
       THEN /\ api' = Api("CVodeMalloc", 0, "SUCCESS")
            /\ tn' = 0 /\ q' = 1 /\ L' = 2 /\ qwait' = 2 /\ etamax' = ETAMX1
            /\ hu' = 0 /\ nst' = 0 /\ nscon' = 0 /\ nstlp' = 0
            /\ zn0' = Vec("y", 0, 0)
            /\ ssdat' = NoSsdat
            /\ znqmax' = NoSaved /\ saved_tq5' = -1
            /\ linit' = FALSE
            /\ sensi' = FALSE /\ quad' = FALSE
            /\ MallocDone' = TRUE
            /\ SetMem(MAlloc(Mem, "vec", NVecs))
            /\ lcalls' = [lcalls EXCEPT !.linit = 0]
       ELSE /\ api' = Api("CVodeMalloc", 0,
                          IF args = "mem" THEN "CVM_MEM_FAIL" ELSE "CVM_ILL_INPUT")
            \* "ewt": the vectors are allocated and released again; "mem":
            \* CVAllocVectors releases what it got, the pointers it wrote are
            \* no longer those of an earlier allocation
            /\ SetMem(CASE args = "ewt" -> MFree(MAlloc(Mem, "vec", NVecs),
                                                 "vec", NVecs)
                         [] args = "mem" /\ own["vec"] # 0 ->
                              [Mem EXCEPT !.own["vec"] = -1]
                         [] OTHER -> Mem)
            /\ UNCHANGED <<tn, q, L, qwait, etamax, hu, nst, nscon, nstlp, zn0,
                           winVars, linit, sensi, MallocDone, quad, lcalls>>
  /\ UNCHANGED <<optVars, zn, dqVars, gamVars,
                 sensMallocDone, ism, ifS, Ns, setupNonNull, lmem,
                 h, hprime, hscale, eta, qprime, jcur, etaqm1, callVars,
                 stepVars, pc, quadMallocDone, abstolSalloc, stgr1alloc>>

(***************************************************************************)
(* Attaching a linear solver (CVDense, CVSpgmr, ...): the solver module    *)
(* registers its four routines in the integrator memory and says whether   *)
(* its setup routine does anything.                                        *)
(***************************************************************************)
CVLinSolAttach(setup) ==
  /\ Idle /\ MallocDone
  /\ linit' = TRUE /\ setupNonNull' = setup
  /\ api' = Api("CVLinSolAttach", 0, "SUCCESS")
  /\ UNCHANGED <<optVars, numVars, memVars,
                 MallocDone, sensVars, lmem, nordVars, callVars,
                 stepVars, pc>>

(***************************************************************************)
(* CVodeGetDky with k = 0, on the grid: the range test, and the value.     *)
(***************************************************************************)
Sgn(x) == IF x < 0 THEN -1 ELSE IF x > 0 THEN 1 ELSE 0

\* variant: the slack without FUZZ_FACTOR
TFuzz_NoFactor == (IF hu < 0 THEN -1 ELSE 1) * (Abs(tn) + Abs(hu))

\* tfuzz * URoundInv, with the sign of hu
TFuzz == (IF hu < 0 THEN -1 ELSE 1) * FUZZ_FACTOR * (Abs(tn) + Abs(hu))

\* (t-tp)*(t-tn1) > ZERO does not hold
DkyOK(t) ==
  ~ (Sgn((t - tn + hu) * URoundInv + TFuzz)
       * Sgn((t - tn) * URoundInv - TFuzz) > 0)

\* the sum of the interpolating polynomial at s = (t - tn)/h
DkyVec(t) == IF h = 0 THEN Vec("nan", nst, 0)
             ELSE IF t = tn THEN zn0
             ELSE Vec("dky", nst, t - tn)

\* ABS(tn - tstop) <= troundoff, troundoff = FUZZ_FACTOR*uround*(|tn|+|h|)
NearTstop(t, hh) ==
  Abs(t - tstop) * URoundInv <= FUZZ_FACTOR * (Abs(t) + Abs(hh))

(***************************************************************************)
(* CVHin: FALSE when tout is too close to tn; otherwise an estimate hd of  *)
(* |h0| between its bounds hlb = HLB_FACTOR*tround and                     *)
(* hub <= HUB_FACTOR*tdist, signed toward tout.                            *)
(***************************************************************************)
HLB_FACTOR == 100
HUB_FACTOR == <<1, 10>>
HinSet == {4}

TRoundMax(toutIn) == IF Abs(tn) < Abs(toutIn) THEN Abs(toutIn) ELSE Abs(tn)

CVHinOK(toutIn) ==
  /\ toutIn - tn # 0
  /\ ~ (Abs(toutIn - tn) * URoundInv < 2 * TRoundMax(toutIn))

CVHinRange(toutIn, hd) ==
  /\ HLB_FACTOR * TRoundMax(toutIn) <= hd * URoundInv
  /\ RLe(RInt(hd), RMul(HUB_FACTOR, RInt(Abs(toutIn - tn))))

(***************************************************************************)
(* The first-call block of CVode (nst = 0): the initial step size from hin *)
(* or CVHin, limited by hmax and hmin, then cut back to tstop.             *)
(***************************************************************************)
IsStop(task) == task \in {"NORMAL_TSTOP", "ONE_STEP_TSTOP"}
IsNormal(task) == task \in {"NORMAL", "NORMAL_TSTOP"}
Tasks == {"NORMAL", "ONE_STEP", "NORMAL_TSTOP", "ONE_STEP_TSTOP"}

BadH0(toutIn) == hin # 0 /\ (toutIn - tn) * hin < 0

LimitH(h0) ==
  LET rh == RMul(RInt(Abs(h0)), hmax_inv)
      h1 == IF RLt(RInt(1), rh) THEN HTimes(h0, RDiv(RInt(1), rh)) ELSE h0
  IN  IF Abs(h1) < hmin THEN Sgn(h1) * hmin ELSE h1

\* variant: the first step is not cut back to tstop
TrimToTstop_None(hh) == hh

\* h = tstop - tn when (tn + h - tstop)*h > ZERO
TrimToTstop(hh) == IF (tn + hh - tstop) * hh > 0 THEN tstop - tn ELSE hh

(***************************************************************************)
(* CVode, from its entry to the head of the loop over internal steps: the  *)
(* argument checks, the first-call block (nst = 0) and the stop tests      *)
(* (nst > 0).  EntryRes computes what the code has written when it either  *)
(* returns (ret is the return value) or reaches the loop (ret = "GO").     *)
(*   toutIn, task, youtIn, tOK   the caller's arguments (tOK: t # NULL)    *)
(*   linitRet                    what linit returns, if called             *)
(*   hd                          CVHin's estimate, if called               *)
(***************************************************************************)
Ill(r) == [r EXCEPT !.ret = "ILL_INPUT"]

FirstCallRes(r, toutIn, task, linitRet, hd) ==
  IF iter = "NEWTON" /\ (~linit \/ linitRet # 0) THEN Ill(r)
  ELSE IF BadH0(toutIn) THEN Ill([r EXCEPT !.h = hin])
  ELSE IF hin = 0 /\ ~CVHinOK(toutIn) THEN Ill([r EXCEPT !.h = hin])
  ELSE LET h0 == IF hin = 0 THEN Sgn(toutIn - tn) * hd ELSE hin
           h1 == LimitH(h0)
           h2 == IF IsStop(task) THEN TrimToTstop(h1) ELSE h1
       IN  IF IsStop(task) /\ (tstop - tn) * h1 < 0
             THEN Ill([r EXCEPT !.h = h1])
             ELSE [r EXCEPT !.h = h2, !.hscale = h2, !.hprime = h2]

StopTestsRes(r, toutIn, task) ==
  IF IsStop(task) /\ (tstop - tn) * h < 0 THEN Ill(r)
  ELSE IF IsNormal(task) /\ (tn - toutIn) * h >= 0
    THEN IF DkyOK(toutIn)
           THEN [r EXCEPT !.tret = toutIn, !.yout = DkyVec(toutIn),
                          !.ret = "SUCCESS"]
           ELSE Ill([r EXCEPT !.tret = toutIn])
  ELSE IF IsStop(task) /\ NearTstop(tn, h)
    THEN IF DkyOK(tstop)
           THEN [r EXCEPT !.tret = tstop, !.yout = DkyVec(tstop),
                          !.ret = "TSTOP_RETURN"]
           ELSE Ill(r)
  ELSE IF IsStop(task) /\ (tn + hprime - tstop) * h > 0
    THEN [r EXCEPT !.hprime = tstop - tn, !.eta = RNorm(tstop - tn, h)]
  ELSE r

EntryRes(toutIn, task, youtIn, tOK, linitRet, hd) ==
  LET r0 == [ret |-> "GO", yout |-> youtIn, tret |-> tret, h |-> h,
             hprime |-> hprime, hscale |-> hscale, eta |-> eta]
      r1 == [r0 EXCEPT !.tret = tn]
  IN  IF ~MallocDone THEN [r0 EXCEPT !.ret = "CVODE_NO_MALLOC"]
      ELSE IF youtIn = NullVec THEN Ill(r0)
      ELSE IF ~tOK THEN Ill(r0)
      ELSE IF task \notin Tasks THEN Ill(r1)
      ELSE IF IsStop(task) /\ ~tstopset THEN Ill(r1)
      ELSE IF nst = 0 THEN FirstCallRes(r1, toutIn, task, linitRet, hd)
      ELSE StopTestsRes(r1, toutIn, task)

\* the locals of CVStep and of the correctors are out of scope
StepLocalsGone ==
  /\ saved_t' = 0 /\ ncf' = 0 /\ nef' = 0 /\ ncfS' = 0 /\ nefS' = 0
  /\ ncfS1' = NoNcfS1 /\ nflag' = "FIRST_CALL" /\ mcor' = 0
  /\ callSetup' = FALSE /\ convfail' = "NO_FAILURES" /\ is' = 0

\* the call reaches ier = linit(cv_mem) in the first-call block
LinitCalled(task, youtIn, tOK) ==
  /\ MallocDone /\ youtIn # NullVec /\ tOK /\ task \in Tasks
  /\ IsStop(task) => tstopset
  /\ nst = 0 /\ iter = "NEWTON" /\ linit

CVodeCall(toutIn, task, youtIn, tOK, linitRet, hd) ==
  /\ Idle
  /\ LET r == EntryRes(toutIn, task, youtIn, tOK, linitRet, hd)
     IN  /\ tout' = toutIn /\ itask' = task
         /\ yout' = r.yout /\ tret' = r.tret
         /\ h' = r.h /\ hprime' = r.hprime /\ hscale' = r.hscale
         /\ eta' = r.eta
         /\ IF r.ret = "GO"
              THEN pc' = "loop" /\ istate' = "NONE"
              ELSE pc' = "ret" /\ istate' = r.ret
  /\ nstloc' = 0
  /\ nst0' = nst
  /\ lmem' = NoLmem
  /\ api' = ApiNone
  /\ StepLocalsGone
  \* the count of linit calls is kept up to 2
  /\ lcalls' = IF LinitCalled(task, youtIn, tOK) /\ lcalls.linit < 2
                 THEN [lcalls EXCEPT !.linit = @ + 1] ELSE lcalls
  /\ UNCHANGED <<optVars, numVars, MallocDone, sensVars, linit, setupNonNull,
                 tn, etamax, q, qprime, L, qwait, nst, nscon, hu, jcur, zn0,
                 etaqm1, nstlp, quad, quadMallocDone, abstolSalloc,
                 stgr1alloc, heap, own, memerr>>

\* the caller has the return value and the outputs
CVodeReturn ==
  /\ pc = "ret"
  /\ pc' = "idle"
  /\ UNCHANGED <<optVars, numVars, memVars,
                 MallocDone, sensVars, linVars, nordVars, callVars,
                 stepVars, api>>

(***************************************************************************)
(* Building blocks of CVStep.                                              *)
(***************************************************************************)
\* CVRestore: undo the prediction
CVRestore == tn' = saved_t /\ zn0' = Vec("y", nst, 0)

(***************************************************************************)
(* The numbers in the history arrays.  zn[a] is one component of the array *)
(* a, column j at index j + 1.  A realtype has a finite unit roundoff      *)
(* (uround): here it is a binary floating-point number with MantBits       *)
(* significant bits, and the numbers are whole, so that every sum is       *)
(* rounded to the nearest number with MantBits bits.  The numbers are      *)
(* followed through CVPredict, CVRestore, CVRescale and the case of        *)
(* CVAdjustOrder that returns at once; where new columns are computed from *)
(* the step history or from f (the other cases of CVAdjustOrder, the       *)
(* restart at order 1, CVCompleteStep), or a rescaled column is no longer  *)
(* whole, they are followed no further (NoZn).                             *)
(***************************************************************************)
MantBits == 12

\* the spacing of the realtype numbers around a >= 0
RECURSIVE Ulp(_)
Ulp(a) == IF a < 2 ^ MantBits THEN 1 ELSE 2 * Ulp(a \div 2)

\* x rounded to the nearest realtype (ties to even)
Fl(x) ==
  LET a == Abs(x)
      u == Ulp(a)
      r == a % u
      dn == a - r
      m == IF 2 * r < u THEN dn
           ELSE IF 2 * r > u THEN dn + u
           ELSE IF (dn \div u) % 2 = 0 THEN dn ELSE dn + u
  IN  IF x < 0 THEN -m ELSE m

\* z = a*x + b*y
N_VLinearSum(a, x, b, y) == Fl(a * x + b * y)

\* F applied to zn, to znQ if quad and to znS if sensi
OnArrays(zz, F(_)) ==
  IF zz = NoZn THEN zz
  ELSE [a \in DOMAIN zz |->
          IF a = "zn" \/ (a = "znQ" /\ quad) \/ (a = "znS" /\ sensi)
            THEN F(zz[a]) ELSE zz[a]]

\* the loops of CVPredict from the pass (k, j) on:
\* for k = 1..q, for j = q..k: zn[j-1] = zn[j-1] + zn[j]
RECURSIVE CVPredictCols(_, _, _, _)
CVPredictCols(z, qq, k, j) ==
  IF k > qq THEN z
  ELSE IF j < k THEN CVPredictCols(z, qq, k + 1, qq)
  ELSE CVPredictCols([z EXCEPT ![j] = N_VLinearSum(1, z[j], 1, z[j + 1])],
                     qq, k, j - 1)

\* the loops of CVRestore from the pass (k, j) on:
\* for k = 1..q, for j = q..k: zn[j-1] = zn[j-1] - zn[j]
RECURSIVE CVRestoreCols(_, _, _, _)
CVRestoreCols(z, qq, k, j) ==
  IF k > qq THEN z
  ELSE IF j < k THEN CVRestoreCols(z, qq, k + 1, qq)
  ELSE CVRestoreCols([z EXCEPT ![j] = N_VLinearSum(1, z[j], -1, z[j + 1])],
                     qq, k, j - 1)

ZnPredicted(zz) == OnArrays(zz, LAMBDA z : CVPredictCols(z, q, 1, q))
ZnRestored(zz) == OnArrays(zz, LAMBDA z : CVRestoreCols(z, q, 1, q))

\* eta^j
RECURSIVE RPow(_, _)
RPow(e, j) == IF j = 0 THEN RInt(1) ELSE RMul(e, RPow(e, j - 1))

\* the loop of CVRescale on the arrays zz at order qq: column j times e^j
ZnOnGrid(zz, e, qq) ==
  \A a \in DOMAIN zz : \A j \in 1..qq :
    (zz[a][j + 1] * RPow(e, j)[1]) % RPow(e, j)[2] = 0

ZnRescaled(zz, e, qq) ==
  IF zz = NoZn \/ ~ZnOnGrid(zz, e, qq) THEN NoZn
  ELSE OnArrays(zz, LAMBDA z :
         [i \in DOMAIN z |->
            IF 2 <= i /\ i <= qq + 1
              THEN Fl((z[i] * RPow(e, i - 1)[1]) \div RPow(e, i - 1)[2])
              ELSE z[i]])

\* variant: a decrease at order 2 is handed on to CVAdjustAdams or CVAdjustBDF
CVAdjustOrder_NoReturn(zz, deltaq) == NoZn

\* CVAdjustOrder at order q: it returns at once when q = 2 and a decrease
\* is asked for
CVAdjustOrder(zz, deltaq) == IF q = 2 /\ deltaq # 1 THEN zz ELSE NoZn

\* CVRescale with eta = e: h = hscale*eta, hscale = h, nscon = 0
CVRescale(e) ==
  /\ OnGrid(hscale, e)
  /\ eta' = e
  /\ h' = HTimes(hscale, e)
  /\ hscale' = h'
  /\ nscon' = 0

\* ABS(h) <= hmin*ONEPSM
AtHmin == RLe(RInt(Abs(h)), RMul(RInt(hmin), ONEPSM))

\* hmin / ABS(h), read only when ABS(h) > hmin*ONEPSM >= 0
HminRatio == RNorm(hmin, Abs(h))

CVHandleFailure(kflag) ==
  CASE kflag = "REP_ERR_FAIL" -> "ERR_FAILURE"
    [] kflag = "REP_CONV_FAIL" -> "CONV_FAILURE"
    [] kflag = "SETUP_FAILED" -> "SETUP_FAILURE"
    [] kflag = "SOLVE_FAILED" -> "SOLVE_FAILURE"

\* variant: the failure exit does not copy zn[0] into yout
StepFails_NoCopy(kflag) ==
  /\ CVRestore
  /\ zn' = ZnRestored(zn)
  /\ istate' = CVHandleFailure(kflag)
  /\ tret' = tn'
  /\ yout' = yout
  /\ pc' = "ret"

\* CVStep returns kflag # SUCCESS_STEP (after CVRestore) and CVode leaves its
\* loop: istate = CVHandleFailure(kflag), *t = tn, yout = zn[0]
StepFails(kflag) ==
  /\ CVRestore
  /\ zn' = ZnRestored(zn)
  /\ istate' = CVHandleFailure(kflag)
  /\ tret' = tn'
  /\ yout' = zn0'
  /\ pc' = "ret"

\* the failure count at which CVHandleNFlag gives up
ConvFailStop(cnt) == AtHmin \/ cnt = maxncf

\* variant: an unrecoverable linear-solver failure is handled like a
\* recoverable one
CVHandleNFlag_Retry(nfl, cnt) ==
  IF nfl = "SOLVED" THEN "DO_ERROR_TEST"
  ELSE IF ConvFailStop(cnt + 1) THEN "REP_CONV_FAIL"
  ELSE "PREDICT_AGAIN"

\* CVHandleNFlag: the value it returns for corrector result nfl when the
\* failure counter it is given holds cnt
CVHandleNFlag(nfl, cnt) ==
  IF nfl = "SOLVED" THEN "DO_ERROR_TEST"
  ELSE IF nfl = "SETUP_FAIL_UNREC" THEN "SETUP_FAILED"
  ELSE IF nfl = "SOLVE_FAIL_UNREC" THEN "SOLVE_FAILED"
  ELSE IF ConvFailStop(cnt + 1) THEN "REP_CONV_FAIL"
  ELSE "PREDICT_AGAIN"

\* the counter it leaves behind
NcfAfter(nfl, cnt) == IF nfl = "CONV_FAIL" THEN cnt + 1 ELSE cnt

\* The corrector has returned nfl (having written its iterate into y, which
\* is yout): CVHandleNFlag, then what CVStep and CVode do with its value.
AfterNls(nfl, cnt, passPc) ==
  LET kflag == CVHandleNFlag(nfl, cnt)
  IN  /\ etamax' = (IF nfl = "CONV_FAIL" THEN 1 ELSE etamax)
      /\ nflag' = (IF kflag = "PREDICT_AGAIN" THEN "PREV_CONV_FAIL" ELSE nfl)
      /\ CASE kflag = "DO_ERROR_TEST" ->
                /\ pc' = passPc
                /\ yout' = IterVec
                /\ UNCHANGED <<tn, zn0, zn, eta, h, hscale, nscon, istate,
                               tret>>
           [] kflag = "PREDICT_AGAIN" ->
                /\ CVRestore
                /\ CVRescale(RMax(ETACF, HminRatio))
                /\ zn' = ZnRescaled(ZnRestored(zn), RMax(ETACF, HminRatio), q)
                /\ pc' = "predict"
                /\ yout' = IterVec
                /\ UNCHANGED <<istate, tret>>
           [] OTHER ->
                /\ StepFails(kflag)
                /\ UNCHANGED <<eta, h, hscale, nscon>>

\* the failure count at which the error test gives up
ErrFailStop(cnt) == AtHmin \/ cnt = maxnef

\* eta after a failed error test, from the estimate etaRaw computed from dsm
ErrTestEta(etaRaw, cnt) ==
  LET e == RMax(ETAMIN, RMax(etaRaw, HminRatio))
  IN  IF cnt >= SMALL_NEF THEN RMin(e, ETAMXF) ELSE e

\* CVDoErrorTest / CVStgrDoErrorTest with failure counter cnt; pass: dsm <= 1
AfterErrTest(pass, etaRaw, cnt, passPc) ==
  IF pass
    THEN /\ pc' = passPc
         /\ UNCHANGED <<nflag, etamax, tn, zn0, zn, eta, h, hscale, nscon,
                        q, L, qwait, istate, tret, yout>>
    ELSE /\ nflag' = "PREV_ERR_FAIL"
         /\ IF ErrFailStop(cnt + 1)
              THEN /\ StepFails("REP_ERR_FAIL")
                   /\ UNCHANGED <<etamax, eta, h, hscale, nscon, q, L, qwait>>
              ELSE /\ CVRestore
                   /\ etamax' = 1
                   /\ pc' = "predict"
                   /\ UNCHANGED <<istate, tret, yout>>
                   /\ IF cnt + 1 <= MXNEF1
                        THEN /\ CVRescale(ErrTestEta(etaRaw, cnt + 1))
                             /\ zn' = ZnRescaled(ZnRestored(zn),
                                                 ErrTestEta(etaRaw, cnt + 1), q)
                             /\ UNCHANGED <<q, L, qwait>>
                        ELSE IF q > 1
                          THEN /\ CVRescale(RMax(ETAMIN, HminRatio))
                               /\ L' = q /\ q' = q - 1 /\ qwait' = L'
                               /\ zn' = ZnRescaled(
                                            CVAdjustOrder(ZnRestored(zn), -1),
                                            RMax(ETAMIN, HminRatio), q - 1)
                          ELSE /\ OnGrid(h, RMax(ETAMIN, HminRatio))
                               /\ zn' = NoZn
                               /\ eta' = RMax(ETAMIN, HminRatio)
                               /\ h' = HTimes(h, eta')
                               /\ hscale' = h'
                               /\ qwait' = LONG_WAIT
                               /\ nscon' = 0
                               /\ UNCHANGED <<q, L>>

(***************************************************************************)
(* The head of CVode's loop over internal steps.  The error weights and    *)
(* the norm behind tolsf are computed from the solution: whether they are  *)
(* acceptable is the environment's choice.                                 *)
(***************************************************************************)
\* the exits of the loop that copy the last accepted solution
LoopExit(code) ==
  /\ istate' = code
  /\ tret' = tn
  /\ yout' = zn0
  /\ pc' = "ret"
  /\ UNCHANGED <<optVars, numVars, memVars,
                 MallocDone, sensVars, linVars, nordVars, tout,
                 itask, nstloc, nst0, stepVars, api>>

\* CVEwtSet (or CVSensEwtSet) finds a non-positive weight
CVodeEwtNowBad ==
  /\ pc = "loop"
  /\ nst > 0
  /\ LoopExit("ILL_INPUT")

\* variant: the budget test is off by one
TooManySteps_Late == nstloc > mxstep

\* nstloc >= mxstep
TooManySteps == nstloc >= mxstep

CVodeTooMuchWork ==
  /\ pc = "loop"
  /\ TooManySteps
  /\ LoopExit("TOO_MUCH_WORK")

\* tolsf > ONE
CVodeTooMuchAcc ==
  /\ pc = "loop"
  /\ ~TooManySteps
  /\ LoopExit("TOO_MUCH_ACC")

DoSensiStg == sensi /\ ism = "STAGGERED"
DoSensiStg1 == sensi /\ ism = "STAGGERED1"

\* CVode calls CVStep; CVStep up to its looping point: the counters of the
\* step, and CVAdjustParams when a change of h or q was decided
CVStepBegin ==
  /\ pc = "loop"
  /\ ~TooManySteps
  /\ saved_t' = tn
  /\ ncf' = 0 /\ nef' = 0
  /\ nflag' = "FIRST_CALL"
  /\ ncfS' = (IF DoSensiStg THEN 0 ELSE ncfS)
  /\ nefS' = (IF DoSensiStg \/ DoSensiStg1 THEN 0 ELSE nefS)
  /\ ncfS1' = (IF DoSensiStg1 THEN NoNcfS1 ELSE ncfS1)
  /\ IF nst > 0 /\ hprime # h
       THEN /\ IF qprime # q
                 THEN q' = qprime /\ L' = qprime + 1 /\ qwait' = qprime + 1
                 ELSE UNCHANGED <<q, L, qwait>>
            /\ CVRescale(eta)
            /\ zn' = ZnRescaled(IF qprime # q
                                  THEN CVAdjustOrder(zn, qprime - q) ELSE zn,
                                eta, qprime)
       ELSE UNCHANGED <<q, L, qwait, eta, h, hscale, nscon, zn>>
  /\ pc' = "predict"
  /\ UNCHANGED <<optVars, dqVars, winVars, gamVars, memVars,
                 MallocDone, sensVars, linVars, tn, hprime, etamax,
                 qprime, nst, hu, jcur, zn0, etaqm1, nstlp, callVars, mcor,
                 callSetup, convfail, is, api>>

(***************************************************************************)
(* CVPredict and CVSet, and the decision of CVNlsNewton whether to call    *)
(* lsetup first.  dg: ABS(gamrat-ONE) > DGMAX (gamrat is 1 when nst = 0).  *)
(* Under Newton iteration gamma is followed by the h and q it was computed *)
(* from, and gamrat and crate by their range: gamrat is "ONE", "NEAR"      *)
(* (within DGMAX of 1) or "FAR"; crate is "ONE" or "ANY".                  *)
(***************************************************************************)
\* forceSetup is set to FALSE by CVodeMalloc, CVodeReInit and CVNlsNewton,
\* and nothing in cvodes.c sets it to TRUE
forceSetup == FALSE

\* variant: the age of the last setup is not looked at
CallSetup_NoMsbp(dg) ==
  /\ setupNonNull
  /\ \/ nflag = "PREV_CONV_FAIL"
     \/ nflag = "PREV_ERR_FAIL"
     \/ nst = 0
     \/ dg
     \/ forceSetup

CallSetup(dg) ==
  /\ setupNonNull
  /\ \/ nflag = "PREV_CONV_FAIL"
     \/ nflag = "PREV_ERR_FAIL"
     \/ nst = 0
     \/ nst >= nstlp + MSBP
     \/ dg
     \/ forceSetup

\* convfail as CVNlsNewton sets it before its loop
ConvfailAtEntry ==
  IF setupNonNull /\ forceSetup THEN "FAIL_OTHER"
  ELSE IF nflag \in {"FIRST_CALL", "PREV_ERR_FAIL"} THEN "NO_FAILURES"
  ELSE "FAIL_OTHER"

CVPredictSet(dg) ==
  /\ pc = "predict"
  /\ dg => (nst > 0 /\ iter = "NEWTON")
  /\ tn' = tn + h
  /\ zn0' = Vec("pred", nst, 0)
  /\ callSetup' = (iter = "NEWTON" /\ CallSetup(dg))
  /\ convfail' = (IF iter = "NEWTON" THEN ConvfailAtEntry ELSE convfail)
  /\ mcor' = 0
  /\ pc' = "nls"
  /\ zn' = ZnPredicted(zn)
  /\ IF iter = "NEWTON"
       THEN /\ gamma' = <<h, q>>
            /\ gammap' = (IF nst = 0 THEN gamma' ELSE gammap)
            /\ gamrat' = (IF nst = 0 THEN "ONE"
                          ELSE IF dg THEN "FAR" ELSE "NEAR")
            /\ crate' = (IF setupNonNull THEN crate ELSE "ONE")
       ELSE UNCHANGED gamVars
  /\ UNCHANGED <<optVars, dqVars, winVars, memVars,
                 MallocDone, sensVars, linVars, h, hprime, hscale,
                 eta, etamax, q, qprime, L, qwait, nst, nscon, hu, jcur,
                 etaqm1, nstlp, callVars, saved_t, ncf, nef, ncfS, nefS,
                 ncfS1, nflag, is, api>>

(***************************************************************************)
(* CVNlsFunctional, with CVHandleNFlag.  conv: the iteration converged     *)
(* within maxcor iterations.                                               *)
(***************************************************************************)
CVNlsFunctional(conv) ==
  /\ pc = "nls"
  /\ iter = "FUNCTIONAL"
  /\ LET nfl == IF conv THEN "SOLVED" ELSE "CONV_FAIL"
     IN  /\ AfterNls(nfl, ncf, "errtest")
         /\ ncf' = NcfAfter(nfl, ncf)
  /\ UNCHANGED <<optVars, dqVars, winVars, gamVars, memVars,
                 MallocDone, sensVars, linVars, hprime, q, qprime,
                 L, qwait, nst, hu, jcur, etaqm1, nstlp, tout, itask, nstloc, nst0,
                 saved_t, nef, ncfS, nefS, ncfS1, mcor, callSetup, convfail, is, api>>

(***************************************************************************)
(* CVDoErrorTest on the state variables and, once it passes, the entry to  *)
(* the staggered sensitivity correctors (which reset ncf and nef).         *)
(***************************************************************************)
EtaFailSet == {<<1, 20>>, <<1, 2>>}

AfterStatePc == IF DoSensiStg THEN "stgr"
                ELSE IF DoSensiStg1 THEN "stgr1" ELSE "complete"

CVDoErrorTest(pass, etaRaw) ==
  /\ pc = "errtest"
  /\ AfterErrTest(pass, etaRaw, nef, AfterStatePc)
  /\ nef' = (IF ~pass THEN nef + 1
             ELSE IF DoSensiStg \/ DoSensiStg1 THEN 0 ELSE nef)
  /\ ncf' = (IF pass /\ (DoSensiStg \/ DoSensiStg1) THEN 0 ELSE ncf)
  /\ is' = (IF pass /\ DoSensiStg1 THEN 0 ELSE is)
  /\ UNCHANGED <<optVars, dqVars, winVars, gamVars, memVars,
                 MallocDone, sensVars, linVars, hprime, qprime, nst,
                 hu, jcur, etaqm1, nstlp, tout, itask, nstloc, nst0, saved_t, ncfS,
                 nefS, ncfS1, mcor, callSetup, convfail, api>>

(***************************************************************************)
(* The staggered sensitivity correctors (functional iteration) and the     *)
(* error test on the sensitivities (errcon = FULL, its default).           *)
(***************************************************************************)
CVStgrNls(conv) ==
  /\ pc = "stgr"
  /\ iter = "FUNCTIONAL"
  /\ LET nfl == IF conv THEN "SOLVED" ELSE "CONV_FAIL"
     IN  /\ AfterNls(nfl, ncfS, "errtestS")
         /\ ncfS' = NcfAfter(nfl, ncfS)
  /\ UNCHANGED <<optVars, dqVars, winVars, gamVars, memVars,
                 MallocDone, sensVars, linVars, hprime, q, qprime,
                 L, qwait, nst, hu, jcur, etaqm1, nstlp, tout, itask, nstloc, nst0,
                 saved_t, ncf, nef, nefS, ncfS1, mcor, callSetup, convfail, is, api>>

\* one pass of the loop over is in CVStep: CVStgr1Nls(is), CVHandleNFlag
CVStgr1Nls(conv) ==
  /\ pc = "stgr1"
  /\ iter = "FUNCTIONAL"
  /\ LET nfl == IF conv THEN "SOLVED" ELSE "CONV_FAIL"
     IN  /\ AfterNls(nfl, ncfS1[is + 1],
                     IF is + 1 < Ns THEN "stgr1" ELSE "errtestS")
         /\ ncfS1' = [ncfS1 EXCEPT ![is + 1] = NcfAfter(nfl, ncfS1[is + 1])]
         /\ is' = (IF conv /\ is + 1 < Ns THEN is + 1 ELSE is)
  /\ UNCHANGED <<optVars, dqVars, winVars, gamVars, memVars,
                 MallocDone, sensVars, linVars, hprime, q, qprime,
                 L, qwait, nst, hu, jcur, etaqm1, nstlp, tout, itask, nstloc, nst0,
                 saved_t, ncf, nef, ncfS, nefS, mcor, callSetup, convfail, api>>

CVStgrDoErrorTest(pass, etaRaw) ==
  /\ pc = "errtestS"
  /\ AfterErrTest(pass, etaRaw, nefS, "complete")
  /\ nefS' = (IF pass THEN nefS ELSE nefS + 1)
  /\ UNCHANGED <<optVars, dqVars, winVars, gamVars, memVars,
                 MallocDone, sensVars, linVars, hprime, qprime, nst,
                 hu, jcur, etaqm1, nstlp, tout, itask, nstloc, nst0, saved_t, ncf,
                 nef, ncfS, ncfS1, mcor, callSetup, convfail, is, api>>

(***************************************************************************)
(* The end of a successful CVStep: CVCompleteStep, CVPrepareNextStep       *)
(* (CVChooseEta, CVSetEta) and CVBDFStab.  The three step-ratio estimates  *)
(* and the verdict of CVsldet are the environment's.                       *)
(***************************************************************************)
EtaSet == {<<1, 2>>, <<2, 1>>}

\* CVSetEta from eta = e, qprime = qp and nscon = nsc: the new eta and nscon
CVSetEta(e, qp, nsc) ==
  IF RLt(e, THRESH)
    THEN [eta |-> RInt(1), nscon |-> nsc]
    ELSE LET e1 == RMin(e, RInt(etamax))
             e2 == RDiv(e1, RMax(RInt(1),
                                 RMul(RMul(RInt(Abs(h)), hmax_inv), e1)))
         IN  [eta |-> e2, nscon |-> IF qp < q THEN 0 ELSE nsc]

\* CVChooseEta: <<eta, qprime>> from the three estimates
CVChooseEta(em1, e0, ep1) ==
  LET etam == RMax(em1, RMax(e0, ep1))
  IN  IF RLt(etam, THRESH) THEN [eta |-> RInt(1), qprime |-> q]
      ELSE IF etam = e0 THEN [eta |-> e0, qprime |-> q]
      ELSE IF etam = em1 THEN [eta |-> em1, qprime |-> q - 1]
      ELSE [eta |-> ep1, qprime |-> q + 1]

\* variant: qwait is left at 0 when the order is reconsidered
CVPrepareNextStep_NoWait(qw, nsc, em1, e0, ep1) ==
  IF etamax = 1
    THEN [qwait |-> IF qw < 2 THEN 2 ELSE qw, qprime |-> q, eta |-> RInt(1),
          nscon |-> nsc, etaqm1 |-> etaqm1]
  ELSE IF qw # 0
    THEN LET s == CVSetEta(e0, q, nsc)
         IN  [qwait |-> qw, qprime |-> q, eta |-> s.eta, nscon |-> s.nscon,
              etaqm1 |-> etaqm1]
  ELSE LET m1 == IF q > 1 THEN em1 ELSE RInt(0)
           p1 == IF q # qmax THEN ep1 ELSE RInt(0)
           c == CVChooseEta(m1, e0, p1)
           s == CVSetEta(c.eta, c.qprime, nsc)
       IN  [qwait |-> qw, qprime |-> c.qprime, eta |-> s.eta,
            nscon |-> s.nscon, etaqm1 |-> m1]

\* variant: a failure within the step does not defer the changes
CVPrepareNextStep_NoDefer(qw, nsc, em1, e0, ep1) ==
  IF qw # 0
    THEN LET s == CVSetEta(e0, q, nsc)
         IN  [qwait |-> qw, qprime |-> q, eta |-> s.eta, nscon |-> s.nscon,
              etaqm1 |-> etaqm1]
  ELSE LET m1 == IF q > 1 THEN em1 ELSE RInt(0)
           p1 == IF q # qmax THEN ep1 ELSE RInt(0)
           c == CVChooseEta(m1, e0, p1)
           s == CVSetEta(c.eta, c.qprime, nsc)
       IN  [qwait |-> 2, qprime |-> c.qprime, eta |-> s.eta,
            nscon |-> s.nscon, etaqm1 |-> m1]

\* variant: the order is reconsidered while qwait still counts down
CVPrepareNextStep_Early(qw, nsc, em1, e0, ep1) ==
  IF etamax = 1
    THEN [qwait |-> IF qw < 2 THEN 2 ELSE qw, qprime |-> q, eta |-> RInt(1),
          nscon |-> nsc, etaqm1 |-> etaqm1]
  ELSE LET m1 == IF q > 1 THEN em1 ELSE RInt(0)
           p1 == IF q # qmax THEN ep1 ELSE RInt(0)
           c == CVChooseEta(m1, e0, p1)
           s == CVSetEta(c.eta, c.qprime, nsc)
       IN  [qwait |-> IF qw = 0 THEN 2 ELSE qw, qprime |-> c.qprime,
            eta |-> s.eta, nscon |-> s.nscon, etaqm1 |-> m1]

\* CVPrepareNextStep after CVCompleteStep left qwait = qw and nscon = nsc
CVPrepareNextStep(qw, nsc, em1, e0, ep1) ==
  IF etamax = 1
    THEN [qwait |-> IF qw < 2 THEN 2 ELSE qw, qprime |-> q, eta |-> RInt(1),
          nscon |-> nsc, etaqm1 |-> etaqm1]
  ELSE IF qw # 0
    THEN LET s == CVSetEta(e0, q, nsc)
         IN  [qwait |-> qw, qprime |-> q, eta |-> s.eta, nscon |-> s.nscon,
              etaqm1 |-> etaqm1]
  ELSE LET m1 == IF q > 1 THEN em1 ELSE RInt(0)
           p1 == IF q # qmax THEN ep1 ELSE RInt(0)
           c == CVChooseEta(m1, e0, p1)
           s == CVSetEta(c.eta, c.qprime, nsc)
       IN  [qwait |-> 2, qprime |-> c.qprime, eta |-> s.eta,
            nscon |-> s.nscon, etaqm1 |-> m1]

\* N_VScale(ONE, acor, zn[qmax]) is reached: by CVCompleteStep, which left
\* qwait = qw, or by CVChooseEta within CVPrepareNextStep
SavesAcor(qw, em1, e0, ep1) ==
  \/ qw = 1 /\ q # qmax
  \/ CVPrepareNextStep(qw, nscon + 1, em1, e0, ep1).qprime = q + 1

\* CVBDFStab on the outcome p of CVPrepareNextStep; viol: CVsldet > 3
CVBDFStab(p, viol) ==
  IF p.qprime >= q
    THEN IF q >= 3 /\ p.nscon >= q + 5 /\ viol
           THEN LET e1 == RMin(p.etaqm1, RInt(etamax))
                    e2 == RDiv(e1, RMax(RInt(1),
                                 RMul(RMul(RInt(Abs(h)), hmax_inv), e1)))
                IN  [p EXCEPT !.qprime = q - 1, !.eta = e2]
           ELSE p
    ELSE [p EXCEPT !.nscon = 0]

CVCompleteStep(em1, e0, ep1, viol) ==
  /\ pc = "complete"
  /\ viol => (sldeton /\ q >= 3)
  /\ LET p0 == CVPrepareNextStep(qwait - 1, nscon + 1, em1, e0, ep1)
         p == IF sldeton THEN CVBDFStab(p0, viol) ELSE p0
     IN  /\ OnGrid(h, p.eta)
         /\ qwait' = p.qwait /\ qprime' = p.qprime /\ eta' = p.eta
         /\ nscon' = p.nscon /\ etaqm1' = p.etaqm1
         /\ hprime' = HTimes(h, p.eta)
  /\ nst' = nst + 1
  /\ hu' = h
  /\ zn0' = Vec("y", nst + 1, 0)
  /\ etamax' = (IF nst + 1 <= SMALL_NST THEN ETAMX2 ELSE ETAMX3)
  /\ pc' = "stepdone"
  /\ StepLocalsGone
  /\ zn' = NoZn
  /\ ssdat' = (IF sldeton /\ q >= 3
                THEN SsdatPushed(ssdat, <<nst + 1, q, h>>) ELSE ssdat)
  /\ znqmax' = (IF SavesAcor(qwait - 1, em1, e0, ep1)
                 THEN [col |-> qmax, nst |-> nst + 1] ELSE znqmax)
  /\ saved_tq5' = (IF qwait - 1 = 1 /\ q # qmax THEN nst + 1 ELSE saved_tq5)
  /\ UNCHANGED <<optVars, dqVars, gamVars, memVars,
                 MallocDone, sensVars, linVars, tn, h, hscale, q, L,
                 jcur, nstlp, callVars, api>>

(***************************************************************************)
(* CVode after a successful CVStep: count it, stop at tstop, return in     *)
(* one-step mode or once tout is reached, else loop.                       *)
(***************************************************************************)
\* variant: the steps of the call are not counted
NstlocAfterStep_Stuck == nstloc

\* nstloc++
NstlocAfterStep == nstloc + 1

\* variant: hprime is not cut back to tstop after a step
HprimeAfterStep_NoTrim == hprime

\* hprime once CVode has looked at tstop: hprime = tstop - tn when
\* (tn + hprime - tstop)*h > ZERO
HprimeAfterStep ==
  IF IsStop(itask) /\ (tn + hprime - tstop) * h > 0 THEN tstop - tn
  ELSE hprime

CVodeAfterStep ==
  /\ pc = "stepdone"
  /\ nstloc' = NstlocAfterStep
  /\ IF IsStop(itask) /\ NearTstop(tn, h)
       THEN /\ yout' = (IF DkyOK(tstop) THEN DkyVec(tstop) ELSE yout)
            /\ tret' = tstop
            /\ istate' = "TSTOP_RETURN" /\ pc' = "ret"
            /\ UNCHANGED <<hprime, eta>>
       ELSE /\ hprime' = HprimeAfterStep
            /\ eta' = (IF hprime' # hprime THEN RNorm(hprime', h) ELSE eta)
            /\ IF ~IsNormal(itask)
                 THEN /\ istate' = "SUCCESS" /\ pc' = "ret"
                      /\ tret' = tn /\ yout' = zn0
                 ELSE IF (tn - tout) * h >= 0
                   THEN /\ istate' = "SUCCESS" /\ pc' = "ret"
                        /\ tret' = tout
                        /\ yout' = (IF DkyOK(tout) THEN DkyVec(tout) ELSE yout)
                   ELSE /\ pc' = "loop"
                        /\ UNCHANGED <<istate, tret, yout>>
  /\ UNCHANGED <<optVars, numVars, memVars,
                 MallocDone, sensVars, linVars, tn, h, hscale,
                 etamax, q, qprime, L, qwait, nst, nscon, hu, jcur, zn0,
                 etaqm1, nstlp, tout, itask, nst0, stepVars, api>>

(***************************************************************************)
(* The Newton correctors: CVNlsNewton for the states, CVStgrNlsNewton and  *)
(* CVStgr1NlsNewton for the staggered sensitivities (one sensitivity       *)
(* system is solved per lsolve pass).  What lsetup and lsolve return, the  *)
(* jcur flag lsetup leaves, and the convergence test are the               *)
(* environment's.  lmem logs the linear solver's view of the CVode call:   *)
(* which routine first returned a negative value, and whether any routine  *)
(* was called after that.                                                  *)
(***************************************************************************)
Stages == {"nls", "stgr", "stgr1"}

\* the convergence-failure counter CVStep hands to CVHandleNFlag
StageCnt(stage) == IF stage = "nls" THEN ncf
                   ELSE IF stage = "stgr" THEN ncfS ELSE ncfS1[is + 1]

\* where CVStep goes when the corrector of the stage has SOLVED
StagePass(stage) == IF stage = "nls" THEN "errtest"
                    ELSE IF stage = "stgr" THEN "errtestS"
                    ELSE IF is + 1 < Ns THEN "stgr1" ELSE "errtestS"

\* maxcor for the states; maxcorS (left at its default) for sensitivities
StageMaxcor(stage) == IF stage = "nls" THEN maxcor ELSE NLS_MAXCOR

LinCalled(routine, r) ==
  [fatal |-> IF lmem.fatal = "none" /\ r < 0 THEN routine ELSE lmem.fatal,
   after |-> lmem.after \/ lmem.fatal # "none"]

\* the corrector of the stage returns nfl to CVStep
NewtonReturns(stage, nfl) ==
  /\ AfterNls(nfl, StageCnt(stage), StagePass(stage))
  /\ ncf' = (IF stage = "nls" THEN NcfAfter(nfl, ncf) ELSE ncf)
  /\ ncfS' = (IF stage = "stgr" THEN NcfAfter(nfl, ncfS) ELSE ncfS)
  /\ ncfS1' = (IF stage = "stgr1"
                 THEN [ncfS1 EXCEPT ![is + 1] = NcfAfter(nfl, ncfS1[is + 1])]
                 ELSE ncfS1)
  /\ is' = (IF stage = "stgr1" /\ nfl = "SOLVED" /\ is + 1 < Ns
              THEN is + 1 ELSE is)
  /\ mcor' = 0
  /\ callSetup' = FALSE
  /\ convfail' = "NO_FAILURES"

NewtonStays == UNCHANGED <<etamax, nflag, pc, yout, tn, zn0, zn, eta, h,
                           hscale, nscon, istate, tret, ncf, ncfS, ncfS1, is>>

\* variant: the step number of the setup is not recorded
AfterLsetup_OldNstlp ==
  [gamrat |-> "ONE", gammap |-> gamma, crate |-> "ONE", nstlp |-> nstlp]

\* what the correctors record after every call of lsetup
AfterLsetup ==
  [gamrat |-> "ONE", gammap |-> gamma, crate |-> "ONE", nstlp |-> nst]

\* the call of lsetup; ier is its return value, jc the *jcurPtr it leaves
CVNlsNewtonSetup(stage, ier, jc) ==
  /\ pc = stage
  /\ iter = "NEWTON"
  /\ callSetup
  /\ lmem' = LinCalled("lsetup", ier)
  /\ jcur' = jc
  /\ gamrat' = AfterLsetup.gamrat
  /\ gammap' = AfterLsetup.gammap
  /\ crate' = AfterLsetup.crate
  /\ nstlp' = AfterLsetup.nstlp
  /\ IF ier < 0 THEN NewtonReturns(stage, "SETUP_FAIL_UNREC")
     ELSE IF ier > 0 THEN NewtonReturns(stage, "CONV_FAIL")
     ELSE /\ callSetup' = FALSE
          /\ mcor' = 0
          /\ UNCHANGED convfail
          /\ NewtonStays
  /\ UNCHANGED <<optVars, dqVars, winVars, gamma, memVars,
                 MallocDone, sensVars, linit, setupNonNull, hprime,
                 q, qprime, L, qwait, nst, hu, etaqm1, tout, itask, nstloc, nst0,
                 saved_t, nef, nefS, api>>

\* variant: whether the Jacobian data is current is not looked at
NewtonRetry_NoJcur == IF setupNonNull THEN "TRY_AGAIN" ELSE "CONV_FAIL"

\* variant: whether the solver has a setup routine is not looked at
NewtonRetry_NoLook == IF ~jcur THEN "TRY_AGAIN" ELSE "CONV_FAIL"

\* what CVNewtonIteration does on a recoverable failure
NewtonRetry == IF ~jcur /\ setupNonNull THEN "TRY_AGAIN" ELSE "CONV_FAIL"

\* one pass of the loop of CVNewtonIteration: ret is what lsolve returns,
\* dcon the outcome of the convergence test ("conv": dcon <= 1, "div": the
\* iteration seems to diverge, "slow": neither)
NewtonPass(stage, ret, dcon) ==
  IF ret < 0 THEN "SOLVE_FAIL_UNREC"
  ELSE IF ret > 0 THEN NewtonRetry
  ELSE IF dcon = "conv" THEN "SOLVED"
  ELSE IF mcor + 1 = StageMaxcor(stage) \/ (mcor + 1 >= 2 /\ dcon = "div")
    THEN NewtonRetry
  ELSE "LOOP"

CVNewtonIteration(stage, ret, dcon) ==
  /\ pc = stage
  /\ iter = "NEWTON"
  /\ ~callSetup
  /\ lmem' = LinCalled("lsolve", ret)
  /\ crate' = (IF stage = "nls" /\ ret = 0 /\ mcor > 0 THEN "ANY" ELSE crate)
  /\ LET nfl == NewtonPass(stage, ret, dcon)
     IN  /\ jcur' = (IF nfl = "SOLVED" THEN FALSE ELSE jcur)
         /\ CASE nfl = "LOOP" ->
                   \* m++ : the count is exact up to MaxIter; beyond it,
                   \* where it can no longer meet maxcor, only its parity
                   \* is kept
                   /\ maxcor <= MaxIter
                   /\ mcor' = (IF mcor <= MaxIter THEN mcor + 1 ELSE MaxIter)
                   /\ callSetup' = FALSE
                   /\ UNCHANGED convfail
                   /\ NewtonStays
              [] nfl = "TRY_AGAIN" ->
                   /\ mcor' = 0
                   /\ callSetup' = TRUE
                   /\ convfail' = "FAIL_BAD_J"
                   /\ NewtonStays
              [] OTHER -> NewtonReturns(stage, nfl)
  /\ UNCHANGED <<optVars, dqVars, winVars, gamma, gammap, gamrat, memVars,
                 MallocDone, sensVars, linit, setupNonNull, hprime,
                 q, qprime, L, qwait, nst, hu, etaqm1, nstlp, tout, itask,
                 nstloc, nst0, saved_t, nef, nefS, api>>

(***************************************************************************)
(* Sensitivity configuration: CVodeSetSensRhsFn / CVodeSetSensRhs1Fn       *)
(* choose the kind of right-hand side (ifS); CVodeSensMalloc and           *)
(* CVodeSensReInit check their arguments in order, storing Ns and ism as   *)
(* they go.  The arguments not modelled (p, pbar, yS0) are valid.           *)
(***************************************************************************)
Isms == {"SIMULTANEOUS", "STAGGERED", "STAGGERED1"}

CVodeSetSensRhsFn ==
  /\ Idle
  /\ ifS' = "ALLSENS"
  /\ api' = Api("CVodeSetSensRhsFn", 0, "SUCCESS")
  /\ UNCHANGED <<optVars, numVars, memVars,
                 MallocDone, sensMallocDone, sensi, ism, Ns, linVars,
                 nordVars, callVars, stepVars, pc>>

CVodeSetSensRhs1Fn ==
  /\ Idle
  /\ ifS' = "ONESENS"
  /\ api' = Api("CVodeSetSensRhs1Fn", 0, "SUCCESS")
  /\ UNCHANGED <<optVars, numVars, memVars,
                 MallocDone, sensMallocDone, sensi, ism, Ns, linVars,
                 nordVars, callVars, stepVars, pc>>

(***************************************************************************)
(* The storage part of CVodeSensMalloc (fresh) and CVodeSensReInit, after  *)
(* the argument checks.  out is what the environment decides:              *)
(*   "tol"   the tolerance test (or CVSensSetAtol) fails                   *)
(*   "cnt0", "cnt2"  a malloc of the three STAGGERED1 counter arrays       *)
(*           fails, with 0 or 2 of them obtained                           *)
(*   "vecs"  CVSensAllocVectors fails      "ewt"  CVSensEwtSet fails       *)
(* An outcome that cannot arise on the path taken is ignored.  The result  *)
(* gives the storage, abstolSalloc, stgr1alloc and the kind of return.     *)
(***************************************************************************)
SensStore(ismIn, out, fresh) ==
  LET FreeAtolIf(m, sa) == IF sa THEN MFree(m, "atol", 1) ELSE m
      FreeCntIf(m, s1) == IF s1 THEN MFree(m, "stgr1", 3) ELSE m
      \* abstolS != NULL: taken as the caller's and read
      sa == own["atol"] = 0
      ma == IF sa THEN MAlloc(Mem, "atol", 1)
            ELSE IF own["atol"] < 0 THEN [Mem EXCEPT !.err = TRUE] ELSE Mem
      needCnt == ismIn = "STAGGERED1" /\ (fresh \/ ~stgr1alloc)
      s1 == IF fresh THEN ismIn = "STAGGERED1" ELSE stgr1alloc \/ needCnt
      mb == IF needCnt THEN MAlloc(ma, "stgr1", 3) ELSE ma
      mc == IF fresh THEN MAlloc(mb, "sens", NVecs) ELSE mb
  IN  IF out = "tol"
        THEN [m |-> FreeAtolIf(ma, sa), sa |-> sa, s1 |-> stgr1alloc,
              ret |-> "ILL_INPUT"]
      ELSE IF needCnt /\ out \in {"cnt0", "cnt2"}
        THEN [m |-> FreeAtolIf(MAlloc(ma, "stgr1",
                                      IF out = "cnt0" THEN 0 ELSE 2), sa),
              sa |-> sa, s1 |-> TRUE, ret |-> "MEM_FAIL"]
      ELSE IF fresh /\ out = "vecs"
        THEN [m |-> LET m1 == FreeCntIf(FreeAtolIf(mb, sa), s1)
                    IN  IF own["sens"] # 0
                          THEN [m1 EXCEPT !.own["sens"] = -1] ELSE m1,
              sa |-> sa, s1 |-> s1, ret |-> "MEM_FAIL"]
      ELSE IF out = "ewt"
        THEN [m |-> MFree(FreeCntIf(FreeAtolIf(mc, sa), s1), "sens", NVecs),
              sa |-> IF fresh THEN sa ELSE FALSE,
              s1 |-> IF fresh THEN s1 ELSE FALSE, ret |-> "ILL_INPUT"]
      ELSE [m |-> mc, sa |-> sa, s1 |-> s1, ret |-> "SUCCESS"]

CVodeSensMalloc(NsIn, ismIn, out) ==
  /\ Idle
  /\ IF NsIn < 0
       THEN /\ api' = Api("CVodeSensMalloc", NsIn, "SCVM_ILL_INPUT")
            /\ UNCHANGED <<Ns, ism, sensi, sensMallocDone, abstolSalloc,
                           stgr1alloc, heap, own, memerr>>
       ELSE IF ismIn \notin Isms
         THEN /\ api' = Api("CVodeSensMalloc", NsIn, "SCVM_ILL_INPUT")
              /\ Ns' = NsIn
              /\ UNCHANGED <<ism, sensi, sensMallocDone, abstolSalloc,
                             stgr1alloc, heap, own, memerr>>
       ELSE IF ismIn = "STAGGERED1" /\ ifS = "ALLSENS"
         THEN /\ api' = Api("CVodeSensMalloc", NsIn, "SCVM_ILL_INPUT")
              /\ Ns' = NsIn /\ ism' = ismIn
              /\ UNCHANGED <<sensi, sensMallocDone, abstolSalloc,
                             stgr1alloc, heap, own, memerr>>
       ELSE LET r == SensStore(ismIn, out, TRUE)
            IN  /\ api' = Api("CVodeSensMalloc", NsIn,
                              IF r.ret = "SUCCESS" THEN "SUCCESS"
                              ELSE "SCVM_" \o r.ret)
                /\ Ns' = NsIn /\ ism' = ismIn
                /\ SetMem(r.m)
                /\ abstolSalloc' = r.sa /\ stgr1alloc' = r.s1
                /\ IF r.ret = "SUCCESS"
                     THEN sensi' = TRUE /\ sensMallocDone' = TRUE
                     ELSE UNCHANGED <<sensi, sensMallocDone>>
  /\ UNCHANGED <<optVars, numVars,
                 MallocDone, ifS, linVars, nordVars, callVars,
                 stepVars, pc, quad, quadMallocDone, lcalls>>

CVodeSensReInit(ismIn, out) ==
  /\ Idle
  /\ IF ~sensMallocDone
       THEN /\ api' = Api("CVodeSensReInit", 0, "SCVREI_NO_SENSI")
            /\ UNCHANGED <<ism, sensi, abstolSalloc, stgr1alloc, heap, own,
                           memerr>>
       ELSE IF ismIn \notin Isms
         THEN /\ api' = Api("CVodeSensReInit", 0, "SCVREI_ILL_INPUT")
              /\ UNCHANGED <<ism, sensi, abstolSalloc, stgr1alloc, heap, own,
                             memerr>>
       ELSE IF ismIn = "STAGGERED1" /\ ifS = "ALLSENS"
         THEN /\ api' = Api("CVodeSensReInit", 0, "SCVREI_ILL_INPUT")
              /\ ism' = ismIn
              /\ UNCHANGED <<sensi, abstolSalloc, stgr1alloc, heap, own,
                             memerr>>
       ELSE LET r == SensStore(ismIn, out, FALSE)
            IN  /\ api' = Api("CVodeSensReInit", 0,
                              IF r.ret = "SUCCESS" THEN "SUCCESS"
                              ELSE "SCVREI_" \o r.ret)
                /\ ism' = ismIn
                /\ SetMem(r.m)
                /\ abstolSalloc' = r.sa /\ stgr1alloc' = r.s1
                /\ IF r.ret = "SUCCESS" THEN sensi' = TRUE
                                        ELSE UNCHANGED sensi
  /\ UNCHANGED <<optVars, numVars,
                 MallocDone, sensMallocDone, ifS, Ns, linVars,
                 nordVars, callVars, stepVars, pc, quad, quadMallocDone,
                 lcalls>>

(***************************************************************************)
(* Inputs of the runs below.  CVHin's estimate is read only on the first   *)
(* call, when hin = 0 and tout is not too close to tn.                     *)
(***************************************************************************)
HinChoices(toutIn) ==
  IF nst = 0 /\ hin = 0 /\ CVHinOK(toutIn)
    THEN {hd \in HinSet : CVHinRange(toutIn, hd)}
    ELSE {0}

\* CVode called with arguments a = <<tout, itask, yout, t # NULL>>
CallCVode(a) ==
  \E hd \in HinChoices(a[1]) : CVodeCall(a[1], a[2], a[3], a[4], 0, hd)

EtaHalf == <<1, 2>>

(***************************************************************************)
(* Runs toward a stop time: BDF with functional iteration, stability-limit *)
(* detection switched on or off, CVode called in the two stop-time modes   *)
(* with tout beyond tstop.  Corrector and error-test failures occur at any *)
(* attempt; the step grows only when the order is raised.                  *)
(***************************************************************************)
TStops == {2, 165}
StopCalls == {<<200, "NORMAL_TSTOP", UserVec, TRUE>>,
              <<200, "ONE_STEP_TSTOP", UserVec, TRUE>>}

\* the caller configures before the first call and keeps to one mode
NextStop ==
  \/ ~MallocDone /\ CVodeMalloc("ok")
  \/ nst = 0 /\ \E v \in BOOLEAN : CVodeSetStabLimDet(v)
  \/ nst = 0 /\ \E v \in TStops : CVodeSetStopTime(v)
  \/ \E a \in StopCalls : (nst = 0 \/ a[2] = itask) /\ CallCVode(a)
  \/ nst < MaxNst /\ CVStepBegin
  \/ CVPredictSet(FALSE)
  \/ \E conv \in BOOLEAN : CVNlsFunctional(conv)
  \/ \E pass \in BOOLEAN : CVDoErrorTest(pass, EtaHalf)
  \/ \E ep1 \in EtaSet, viol \in BOOLEAN :
       CVCompleteStep(EtaHalf, EtaHalf, ep1, viol)
  \/ CVodeAfterStep
  \/ CVodeReturn

SpecStop == CVodeCreate("BDF", "FUNCTIONAL") /\ [][NextStop]_vars

(***************************************************************************)
(* The driver: functional iteration, no sensitivities.  Before the first   *)
(* call the caller may set a stop time, a step budget of one and a minimum *)
(* step; it then calls CVode in any of its modes, also with a missing or   *)
(* malformed argument.  Every exit of the loop over internal steps is      *)
(* taken.                                                                  *)
(***************************************************************************)
\* the calls with a missing or malformed argument, or a tout behind tn
BadCalls == {<<40, "NORMAL", NullVec, TRUE>>, <<40, "NORMAL", UserVec, FALSE>>,
             <<40, "BAD_ITASK", UserVec, TRUE>>, <<0, "NORMAL", UserVec, TRUE>>}

CallArgs == {<<40, task, UserVec, TRUE>> : task \in Tasks} \cup BadCalls

Next ==
  \/ ~MallocDone /\ CVodeMalloc("ok")
  \/ nst = 0 /\ CVodeSetStopTime(10)
  \/ nst = 0 /\ CVodeSetMaxNumSteps(1)
  \/ nst = 0 /\ CVodeSetMinStep(1)
  \/ \E a \in CallArgs : CallCVode(a)
  \/ CVodeEwtNowBad
  \/ CVodeTooMuchWork
  \/ CVodeTooMuchAcc
  \/ nst < MaxNstShort /\ CVStepBegin
  \/ CVPredictSet(FALSE)
  \/ \E conv \in BOOLEAN : CVNlsFunctional(conv)
  \/ \E pass \in BOOLEAN : CVDoErrorTest(pass, EtaHalf)
  \/ \E e0 \in EtaSet : CVCompleteStep(EtaHalf, e0, EtaHalf, FALSE)
  \/ CVodeAfterStep
  \/ CVodeReturn

Spec == CVodeCreate("ADAMS", "FUNCTIONAL") /\ [][Next]_vars

(***************************************************************************)
(* Repeated failures within a step: the caller chooses the failure limits  *)
(* (CVodeSetMaxErrTestFails, CVodeSetMaxConvFails), an initial step and a  *)
(* minimum step before the first call; the corrector and the error test    *)
(* fail at any attempt.                                                    *)
(***************************************************************************)
FailLimits == {0, 2}

NextFail ==
  \/ ~MallocDone /\ CVodeMalloc("ok")
  \/ nst = 0 /\ \E v \in FailLimits : CVodeSetMaxErrTestFails(v)
  \/ nst = 0 /\ \E v \in FailLimits : CVodeSetMaxConvFails(v)
  \/ nst = 0 /\ CVodeSetInitStep(20)
  \/ nst = 0 /\ CVodeSetMinStep(5)
  \/ \E task \in {"NORMAL", "ONE_STEP"} :
       CallCVode(<<200, task, UserVec, TRUE>>)
  \/ nst < MaxNstShort /\ CVStepBegin
  \/ CVPredictSet(FALSE)
  \/ \E conv \in BOOLEAN : CVNlsFunctional(conv)
  \/ \E pass \in BOOLEAN, e \in EtaFailSet : CVDoErrorTest(pass, e)
  \/ \E e0 \in EtaSet : CVCompleteStep(EtaHalf, e0, EtaHalf, FALSE)
  \/ CVodeAfterStep
  \/ CVodeReturn

SpecFail == CVodeCreate("ADAMS", "FUNCTIONAL") /\ [][NextFail]_vars

(***************************************************************************)
(* Newton iteration with an attached linear solver, with or without a      *)
(* setup routine, with or without sensitivities in any of the three        *)
(* methods.  linit, lsetup and lsolve return any of a negative value, zero *)
(* or a positive value.                                                    *)
(***************************************************************************)
LinRets == {-1, 0, 1}
DconSet == {"conv", "slow", "div"}

NextLin ==
  \/ ~MallocDone /\ CVodeMalloc("ok")
  \/ nst = 0 /\ \E setup \in BOOLEAN : CVLinSolAttach(setup)
  \/ nst = 0 /\ MallocDone /\ ~sensMallocDone
       /\ \E ismIn \in Isms : CVodeSensMalloc(1, ismIn, "ok")
  \/ \E lr \in {-1, 0} : \E hd \in HinChoices(40) :
       CVodeCall(40, "NORMAL", UserVec, TRUE, lr, hd)
  \/ nst < MaxNstShort /\ CVStepBegin
  \/ \E dg \in BOOLEAN : CVPredictSet(dg)
  \/ \E stage \in Stages, ier \in LinRets, jc \in BOOLEAN :
       CVNlsNewtonSetup(stage, ier, jc)
  \/ \E stage \in Stages, ret \in LinRets, dcon \in DconSet :
       CVNewtonIteration(stage, ret, dcon)
  \/ \E pass \in BOOLEAN : CVDoErrorTest(pass, EtaHalf)
  \/ \E pass \in BOOLEAN : CVStgrDoErrorTest(pass, EtaHalf)
  \/ CVCompleteStep(EtaHalf, EtaHalf, EtaHalf, FALSE)
  \/ CVodeAfterStep
  \/ CVodeReturn

SpecLin == CVodeCreate("BDF", "NEWTON") /\ [][NextLin]_vars

(***************************************************************************)
(* Sensitivity configuration and stepping: CVodeSensMalloc,                *)
(* CVodeSensReInit and the two right-hand-side setters in any order        *)
(* between calls of CVode (functional iteration).                          *)
(***************************************************************************)
NextSens ==
  \/ ~MallocDone /\ CVodeMalloc("ok")
  \/ MallocDone /\ ~sensMallocDone
       /\ \E NsIn \in {1, 2}, ismIn \in Isms : CVodeSensMalloc(NsIn, ismIn, "ok")
  \/ MallocDone /\ \E ismIn \in Isms : CVodeSensReInit(ismIn, "ok")
  \/ CVodeSetSensRhsFn
  \/ CVodeSetSensRhs1Fn
  \/ CallCVode(<<40, "ONE_STEP", UserVec, TRUE>>)
  \/ nst < MaxNstShort /\ CVStepBegin
  \/ CVPredictSet(FALSE)
  \/ \E conv \in BOOLEAN : CVNlsFunctional(conv)
  \/ \E pass \in BOOLEAN : CVDoErrorTest(pass, EtaHalf)
  \/ \E conv \in BOOLEAN : CVStgrNls(conv)
  \/ \E conv \in BOOLEAN : CVStgr1Nls(conv)
  \/ \E pass \in BOOLEAN : CVStgrDoErrorTest(pass, EtaHalf)
  \/ CVCompleteStep(EtaHalf, EtaHalf, EtaHalf, FALSE)
  \/ CVodeAfterStep
  \/ CVodeReturn

SpecSens == CVodeCreate("BDF", "FUNCTIONAL") /\ [][NextSens]_vars

(***************************************************************************)
(* Claims about the stop time.                                             *)
(***************************************************************************)
\* a CVode call is between its entry checks and its return
InLoop == pc \in {"loop", "predict", "nls", "errtest", "complete", "stepdone"}

\* tn lies beyond tstop in the direction of integration by more than
\* troundoff = FUZZ_FACTOR*uround*(|tn|+|h|)
PastTstop == (tn - tstop) * h > 0 /\ ~NearTstop(tn, h)

\* C2: in a call with itask NORMAL_TSTOP or ONE_STEP_TSTOP the internal time
\* tn, predicted or accepted, is never beyond tstop in the direction of
\* integration by more than the rounding allowance, whatever step-size
\* changes, retries and SLDET order reductions have occurred.
C2_TnNotPastTstop == (InLoop /\ IsStop(itask)) => ~PastTstop

\* an accepted step has landed on tstop with a step cut back to reach it,
\* right after SLDET reduced the order
C2_Witness ==
  /\ pc = "stepdone" /\ IsStop(itask)
  /\ tn = tstop /\ nst = MaxNst
  /\ sldeton /\ q = 2 /\ etamax = ETAMX3

(***************************************************************************)
(* Claims about the driver.                                                *)
(***************************************************************************)
\* the negative return values of CVode on an initialised integrator
Errors == {"ILL_INPUT", "TOO_MUCH_WORK", "TOO_MUCH_ACC", "ERR_FAILURE",
           "CONV_FAILURE", "SETUP_FAILURE", "SOLVE_FAILURE"}

Returned(code) == pc = "ret" /\ istate = code

C3_TstopReturn ==
  (pc = "ret" /\ itask = "NORMAL_TSTOP" /\ istate \in {"SUCCESS", "TSTOP_RETURN"}
     /\ (tout - tstop) * h > 0)
    => (istate = "TSTOP_RETURN" /\ tret = tstop /\ yout = DkyVec(tstop))

\* the call took several steps, the last one cut back to land on tstop
C3_Witness ==
  /\ Returned("TSTOP_RETURN") /\ itask = "NORMAL_TSTOP"
  /\ tret = tstop /\ tn = tstop /\ nstloc = 3 /\ hu = 2
  /\ (tout - tstop) * h > 0

\* C4, as stated: once mxstep steps have been taken in the call, CVode
\* returns TOO_MUCH_WORK instead of starting another step.
C4_AsClaimed ==
  [][(pc = "loop" /\ nst - nst0 >= mxstep)
       => (pc' = "ret" /\ istate' = "TOO_MUCH_WORK")]_vars

\* C4, amended: a call takes at most mxstep steps; once it has taken them
\* it starts no other step and returns TOO_MUCH_WORK, unless the error
\* weights of the last solution are not positive, which returns ILL_INPUT.
C4_StepBudget ==
  [][/\ (pc' \in {"loop", "predict", "nls", "errtest", "complete", "stepdone"})
          => nst' - nst0' <= mxstep'
     /\ (pc = "loop" /\ nst - nst0 >= mxstep)
          => (pc' = "ret" /\ istate' \in {"TOO_MUCH_WORK", "ILL_INPUT"}
              /\ nst' = nst)]_vars

\* the budget of one step is used up, in a call that is not the first
C4_Witness ==
  /\ Returned("TOO_MUCH_WORK") /\ nst - nst0 = mxstep /\ nst0 > 0

\* C5, as stated: when CVode returns TOO_MUCH_WORK, nst equals mxstep and
\* yout equals zn[0].
C5_AsClaimed == Returned("TOO_MUCH_WORK") => (nst = mxstep /\ yout = zn0)

\* C5, amended: when CVode returns TOO_MUCH_WORK, the call has taken
\* exactly mxstep steps (nst counts the steps of all calls) and yout
\* equals zn[0].
C5_BudgetSpent ==
  Returned("TOO_MUCH_WORK")
    => (nst - nst0 = mxstep /\ nstloc = mxstep /\ yout = zn0 /\ tret = tn)

\* TOO_MUCH_WORK with more steps on the counter than the budget
C5_Witness ==
  /\ Returned("TOO_MUCH_WORK") /\ nst > mxstep /\ yout = zn0
  /\ zn0 = Vec("y", nst, 0)

(***************************************************************************)
(* Claims about failures within a step.                                    *)
(***************************************************************************)
\* C6, as stated: within one internal step the error test fails at most
\* maxnef times; a step is retried after a failed error test only while
\* the failure count of the step is below maxnef.
C6_AsClaimed == (pc = "predict" /\ nflag = "PREV_ERR_FAIL") => nef < maxnef

\* C7, as stated: within one internal step the corrector fails to converge
\* at most maxncf times; a step is retried after a convergence failure
\* only while the failure count of the step is below maxncf.
C7_AsClaimed == (pc = "predict" /\ nflag = "PREV_CONV_FAIL") => ncf < maxncf

(***************************************************************************)
(* Claims about the linear solver.                                         *)
(***************************************************************************)
\* C8: once lsetup or lsolve has returned a negative value, neither is
\* called again in that CVode call, which returns at once, with
\* SETUP_FAILURE or SOLVE_FAILURE respectively.
C8_NoRetryAfterFatal ==
  /\ ~lmem.after
  /\ lmem.fatal # "none" => pc \in {"ret", "idle"}
  /\ lmem.fatal = "lsetup" => istate = "SETUP_FAILURE"
  /\ lmem.fatal = "lsolve" => istate = "SOLVE_FAILURE"

\* lsetup, called again by the staggered sensitivity corrector because the
\* Jacobian data was not current, has failed unrecoverably on a later step
C8_Witness ==
  /\ Returned("SETUP_FAILURE") /\ lmem.fatal = "lsetup"
  /\ DoSensiStg /\ nst > 0 /\ nstlp = nst

(***************************************************************************)
(* Claims about the configuration.                                         *)
(***************************************************************************)
\* C9, as stated: no step is taken with ism = STAGGERED1 and ifS = ALLSENS
\* in effect.
C9_AsClaimed ==
  (pc \notin {"idle", "ret"} /\ sensi) => ~(ism = "STAGGERED1" /\ ifS = "ALLSENS")

\* the value passed to a setter is outside the option's legal range
OutOfRange(a) ==
  \/ /\ a.fn \in {"CVodeSetMaxOrd", "CVodeSetMaxNumSteps",
                  "CVodeSetMaxErrTestFails", "CVodeSetMaxConvFails",
                  "CVodeSetMaxNonlinIters", "CVodeSetMinStep",
                  "CVodeSetMaxStep"}
     /\ a.arg <= 0
  \/ a.fn = "CVodeSetStabLimDet" /\ lmm # "BDF"

\* C10, as stated: a setter called with a value outside the legal range
\* returns CVS_ILL_INPUT and leaves the stored options unchanged.
C10_AsClaimed ==
  [][OutOfRange(api') => (api'.flag = "CVS_ILL_INPUT" /\ UNCHANGED optVars)]_vars


(***************************************************************************)
(* CVodeReInit.  args as for CVodeMalloc, without "mem": nothing is        *)
(* allocated.  ReInitFields is what a successful call writes.              *)
(***************************************************************************)
\* variant: the count of steps at constant order survives
ReInitFields_KeepNscon ==
  /\ tn' = 0 /\ q' = 1 /\ L' = 2 /\ qwait' = 2 /\ etamax' = ETAMX1
  /\ hu' = 0 /\ nst' = 0 /\ nstlp' = 0
  /\ zn0' = Vec("y", 0, 0)
  /\ ssdat' = NoSsdat
  \* zn[qmax] and saved_tq5 are left as they are: of the problem before
  /\ znqmax' = [znqmax EXCEPT !.nst = -1] /\ saved_tq5' = -1
  /\ sensi' = FALSE /\ quad' = FALSE
  /\ UNCHANGED nscon

ReInitFields ==
  /\ tn' = 0 /\ q' = 1 /\ L' = 2 /\ qwait' = 2 /\ etamax' = ETAMX1
  /\ hu' = 0 /\ nst' = 0 /\ nscon' = 0 /\ nstlp' = 0
  /\ zn0' = Vec("y", 0, 0)
  /\ ssdat' = NoSsdat
  \* zn[qmax] and saved_tq5 are left as they are: of the problem before
  /\ znqmax' = [znqmax EXCEPT !.nst = -1] /\ saved_tq5' = -1
  /\ sensi' = FALSE /\ quad' = FALSE

CVodeReInit(args) ==
  /\ Idle
  /\ IF ~MallocDone
       THEN /\ api' = Api("CVodeReInit", 0, "CVREI_NO_MALLOC")
            /\ UNCHANGED <<tn, q, L, qwait, etamax, hu, nst, nscon, nstlp, zn0,
                           winVars, sensi, quad, lcalls>>
       ELSE IF args # "ok"
         THEN /\ api' = Api("CVodeReInit", 0, "CVREI_ILL_INPUT")
              /\ UNCHANGED <<tn, q, L, qwait, etamax, hu, nst, nscon, nstlp,
                             zn0, winVars, sensi, quad, lcalls>>
       ELSE /\ api' = Api("CVodeReInit", 0, "SUCCESS")
            /\ ReInitFields
            /\ lcalls' = [lcalls EXCEPT !.linit = 0]
  /\ UNCHANGED <<optVars, zn, dqVars, gamVars,
                 MallocDone, sensMallocDone, ism, ifS, Ns, linVars,
                 h, hprime, hscale, eta, qprime, jcur, etaqm1, callVars,
                 stepVars, pc, quadMallocDone, abstolSalloc, stgr1alloc,
                 heap, own, memerr>>

(***************************************************************************)
(* Quadrature storage: CVodeQuadMalloc and CVodeQuadReInit.  out is "ok",  *)
(* "ill" (an argument check fails), "mem" (CVQuadAllocVectors fails) or    *)
(* "ewt" (CVQuadEwtSet fails).                                             *)
(***************************************************************************)
CVodeQuadMalloc(out) ==
  /\ Idle
  /\ CASE out = "ok" ->
            /\ api' = Api("CVodeQuadMalloc", 0, "SUCCESS")
            /\ SetMem(MAlloc(Mem, "quad", NVecs))
            /\ quad' = TRUE /\ quadMallocDone' = TRUE
       [] out = "ewt" ->
            /\ api' = Api("CVodeQuadMalloc", 0, "QCVM_ILL_INPUT")
            /\ SetMem(MFree(MAlloc(Mem, "quad", NVecs), "quad", NVecs))
            /\ UNCHANGED <<quad, quadMallocDone>>
       [] out = "mem" ->
            /\ api' = Api("CVodeQuadMalloc", 0, "QCVM_MEM_FAIL")
            /\ SetMem(IF own["quad"] # 0 THEN [Mem EXCEPT !.own["quad"] = -1]
                                         ELSE Mem)
            /\ UNCHANGED <<quad, quadMallocDone>>
       [] OTHER ->
            /\ api' = Api("CVodeQuadMalloc", 0, "QCVM_ILL_INPUT")
            /\ UNCHANGED <<quad, quadMallocDone, heap, own, memerr>>
  /\ UNCHANGED <<optVars, numVars,
                 MallocDone, sensVars, linVars, nordVars, callVars,
                 stepVars, pc, abstolSalloc, stgr1alloc, lcalls>>

CVodeQuadReInit(out) ==
  /\ Idle
  /\ out # "mem"
  /\ IF ~quadMallocDone
       THEN /\ api' = Api("CVodeQuadReInit", 0, "QCVREI_NO_QUAD")
            /\ UNCHANGED <<quad, heap, own, memerr>>
       ELSE CASE out = "ok" ->
                   /\ api' = Api("CVodeQuadReInit", 0, "SUCCESS")
                   /\ quad' = TRUE
                   /\ UNCHANGED <<heap, own, memerr>>
              [] out = "ewt" ->
                   /\ api' = Api("CVodeQuadReInit", 0, "QCVREI_ILL_INPUT")
                   /\ SetMem(MFree(Mem, "quad", NVecs))
                   /\ UNCHANGED quad
              [] OTHER ->
                   /\ api' = Api("CVodeQuadReInit", 0, "QCVREI_ILL_INPUT")
                   /\ UNCHANGED <<quad, heap, own, memerr>>
  /\ UNCHANGED <<optVars, numVars,
                 MallocDone, sensVars, linVars, nordVars, callVars,
                 stepVars, pc, quadMallocDone, abstolSalloc, stgr1alloc,
                 lcalls>>

(***************************************************************************)
(* CVodeResetIterType and CVodeFree.  CVodeFree releases the state vectors *)
(* unconditionally, the quadrature vectors if quad, the sensitivity        *)
(* storage if sensi, and calls lfree if iter is NEWTON, attached or not.   *)
(***************************************************************************)
CVodeResetIterType(iter0) ==
  /\ Idle
  /\ IF iter0 \notin {"FUNCTIONAL", "NEWTON"}
       THEN api' = Api("CVodeResetIterType", 0, "CVS_ILL_INPUT") /\ iter' = iter
       ELSE api' = Api("CVodeResetIterType", 0, "SUCCESS") /\ iter' = iter0
  /\ NoOptChange(<<lmm, qmax, mxstep, sldeton, hin, hmin, hmax_inv, tstop,
                   tstopset, maxcor, maxnef, maxncf>>)

CVodeFree ==
  /\ Idle
  /\ LET m1 == MFree(Mem, "vec", NVecs)
         m2 == IF quad THEN MFree(m1, "quad", NVecs) ELSE m1
         m3 == IF sensi /\ abstolSalloc THEN MFree(m2, "atol", 1) ELSE m2
         m4 == IF sensi /\ stgr1alloc THEN MFree(m3, "stgr1", 3) ELSE m3
         m5 == IF sensi THEN MFree(m4, "sens", NVecs) ELSE m4
     IN  SetMem(m5)
  /\ quad' = FALSE /\ sensi' = FALSE
  /\ lcalls' = IF iter # "NEWTON" THEN lcalls
               ELSE IF linit THEN [lcalls EXCEPT !.lfree = @ + 1]
               ELSE [lcalls EXCEPT !.null = TRUE]
  /\ api' = Api("CVodeFree", 0, "SUCCESS")
  /\ pc' = "freed"
  /\ UNCHANGED <<optVars, numVars,
                 MallocDone, sensMallocDone, ism, ifS, Ns, linVars,
                 nordVars, callVars, stepVars, quadMallocDone, abstolSalloc,
                 stgr1alloc>>

(***************************************************************************)
(* CVodeGetDky(t, k).  Its checks read q, tn and hu and its sum reads zn,  *)
(* whether or not CVodeMalloc has run: before it these are what malloc     *)
(* left, so any of its returns can follow (res), the vectors being read    *)
(* when the checks happen to pass.                                         *)
(***************************************************************************)
CVodeGetDky(t, k, res) ==
  /\ Idle
  /\ LET ret == IF ~MallocDone THEN res
                ELSE IF k < 0 \/ k > q THEN "BAD_K"
                ELSE IF ~DkyOK(t) THEN "BAD_T" ELSE "OKAY"
     IN  /\ api' = Api("CVodeGetDky", k, ret)
         /\ memerr' = (memerr \/ (ret = "OKAY" /\ own["vec"] <= 0))
  /\ UNCHANGED <<optVars, numVars,
                 MallocDone, sensVars, linVars, nordVars, callVars,
                 stepVars, pc, quad, quadMallocDone, abstolSalloc, stgr1alloc,
                 heap, own, lcalls>>


(***************************************************************************)
(* The life of the storage (functional iteration): the initialisation and  *)
(* re-initialisation calls in any order, each succeeding or failing at its *)
(* error-weight test or at an allocation, and CVodeFree at the end.        *)
(* CVodeMalloc and CVodeQuadMalloc are called until they succeed,          *)
(* CVodeSensMalloc until it succeeds or leaves counter arrays behind; the   *)
(* maximum order is lowered at any time.                                   *)
(***************************************************************************)
NextLife ==
  \/ ~MallocDone /\ \E args \in {"ok", "ewt", "mem"} : CVodeMalloc(args)
  \/ \E args \in {"ok", "ewt"} : CVodeReInit(args)
  \/ ~quadMallocDone /\ \E out \in {"ok", "ewt", "mem"} : CVodeQuadMalloc(out)
  \/ \E out \in {"ok", "ewt"} : CVodeQuadReInit(out)
  \/ ~sensMallocDone /\ heap["stgr1"] = 0
       /\ \E ismIn \in {"SIMULTANEOUS", "STAGGERED1"},
             out \in {"ok", "cnt2", "vecs", "ewt"} :
            CVodeSensMalloc(1, ismIn, out)
  \/ \E ismIn \in {"SIMULTANEOUS", "STAGGERED1"}, out \in {"ok", "ewt"} :
       CVodeSensReInit(ismIn, out)
  \/ CVodeSetMaxOrd(2)
  \/ CVodeFree

SpecLife == CVodeCreate("BDF", "FUNCTIONAL") /\ [][NextLife]_vars

(***************************************************************************)
(* Order selection across re-initialisation (BDF, functional iteration):   *)
(* the order is raised and lowered by CVPrepareNextStep, the error test    *)
(* fails at any attempt, the caller lowers the maximum order at any time   *)
(* between calls and re-initialises the problem after any number of steps. *)
(***************************************************************************)
NextOrd ==
  \/ ~MallocDone /\ CVodeMalloc("ok")
  \/ nst = 0 /\ \E v \in BOOLEAN : CVodeSetStabLimDet(v)
  \/ \E v \in {0, 1, 2} : CVodeSetMaxOrd(v)
  \/ nst > 0 /\ \E args \in {"ok", "ewt"} : CVodeReInit(args)
  \/ CallCVode(<<40, "ONE_STEP", UserVec, TRUE>>)
  \/ nst < MaxNstShort /\ CVStepBegin
  \/ CVPredictSet(FALSE)
  \/ CVNlsFunctional(TRUE)
  \/ \E pass \in BOOLEAN : CVDoErrorTest(pass, EtaHalf)
  \/ \E em1 \in EtaSet, ep1 \in EtaSet, viol \in BOOLEAN :
       CVCompleteStep(em1, EtaHalf, ep1, viol)
  \/ CVodeAfterStep
  \/ CVodeReturn

SpecOrd == CVodeCreate("BDF", "FUNCTIONAL") /\ [][NextOrd]_vars


C12_AsClaimed ==
  [][api'.fn \in {"CVodeReInit", "CVodeQuadReInit", "CVodeSensReInit"} =>
       \A g \in Groups :
         own[g] > 0 =>
           /\ own'[g] = own[g] /\ heap'[g] >= heap[g]
           /\ CASE g = "quad" -> quad' = quad
                [] g = "sens" -> sensi' = sensi
                [] g = "atol" -> (sensi' = sensi /\ abstolSalloc' = abstolSalloc)
                [] g = "stgr1" -> (sensi' = sensi /\ stgr1alloc' = stgr1alloc)
                [] OTHER -> TRUE]_vars


(***************************************************************************)
(* C13 (as claimed).  After any sequence of calls on an initialised        *)
(* integrator, CVodeFree releases every group of storage exactly once:     *)
(* nothing stays live and nothing already released is released again.      *)
(***************************************************************************)
C13_AsClaimed ==
  (pc = "freed" /\ MallocDone) =>
    /\ \A g \in Groups : heap[g] = 0
    /\ ~memerr


(***************************************************************************)
(* First calls: either iteration type, changed at any time, a linear       *)
(* solver attached or not, an initial step given or not, CVode called with *)
(* tout at t0 or beyond it, linit succeeding or failing, CVodeGetDky,      *)
(* CVodeReInit and CVodeQuadMalloc called before or after CVodeMalloc, and *)
(* CVodeFree at any time between calls.  Every step succeeds.              *)
(***************************************************************************)
NextFirst ==
  \/ ~MallocDone /\ CVodeMalloc("ok")
  \/ ~MallocDone /\ ~quadMallocDone /\ CVodeQuadMalloc("ok")
  \/ nst = 0 /\ MallocDone /\ ~linit /\ CVLinSolAttach(TRUE)
  \/ nst = 0 /\ \E it \in {"FUNCTIONAL", "NEWTON"} : CVodeResetIterType(it)
  \/ nst = 0 /\ CVodeSetInitStep(20)
  \/ CVodeReInit("ok")
  \/ \E res \in {"BAD_K", "BAD_T", "OKAY"} : CVodeGetDky(0, 0, res)
  \/ \E toutIn \in {0, 40}, lr \in {-1, 0} : \E hd \in HinChoices(toutIn) :
       CVodeCall(toutIn, "ONE_STEP", UserVec, TRUE, lr, hd)
  \/ nst < MaxNstShort /\ CVStepBegin
  \/ CVPredictSet(FALSE)
  \/ CVNlsFunctional(TRUE)
  \/ \E stage \in Stages : CVNlsNewtonSetup(stage, 0, TRUE)
  \/ \E stage \in Stages : CVNewtonIteration(stage, 0, "conv")
  \/ CVDoErrorTest(TRUE, EtaHalf)
  \/ CVCompleteStep(EtaHalf, EtaHalf, EtaHalf, FALSE)
  \/ CVodeAfterStep
  \/ CVodeReturn
  \/ CVodeFree

SpecFirst == Init /\ [][NextFirst]_vars


(***************************************************************************)
(* C14 (as claimed).  CVodeFree calls the linear solver's lfree exactly    *)
(* once if a solver is attached and never calls an lfree that is absent,   *)
(* whatever the iteration type is at that time.                            *)
(***************************************************************************)
C14_AsClaimed ==
  pc = "freed" =>
    /\ lcalls.lfree = (IF linit THEN 1 ELSE 0)
    /\ ~lcalls.null


(***************************************************************************)
(* C15 (as claimed).  Whenever CVodeMalloc, CVodeQuadMalloc or             *)
(* CVodeSensMalloc returns an error, everything the call allocated has     *)
(* been released again (as much is live as before the call) and nothing    *)
(* has been released twice.                                                *)
(***************************************************************************)
C15_AsClaimed ==
  [][(/\ api'.fn \in {"CVodeMalloc", "CVodeQuadMalloc", "CVodeSensMalloc"}
      /\ api'.flag # "SUCCESS")
       => (heap' = heap /\ memerr' = memerr)]_vars


(***************************************************************************)
(* C16 (as claimed).  Between one successful CVodeMalloc or CVodeReInit    *)
(* and the next (or CVodeFree), linit is called at most once, calls of     *)
(* CVode that return an error included.                                    *)
(***************************************************************************)
C16_AsClaimed == lcalls.linit <= 1


(***************************************************************************)
(* C17 (as claimed).  Called before CVodeMalloc has completed, CVode,      *)
(* CVodeReInit, CVodeGetDky and CVodeQuadMalloc return an error of the     *)
(* no-memory kind and neither read nor write any vector storage.           *)
(***************************************************************************)
C17_AsClaimed ==
  [][/\ (/\ ~MallocDone
         /\ api'.fn \in {"CVodeReInit", "CVodeGetDky", "CVodeQuadMalloc"})
          => /\ api'.flag \in {"CVREI_NO_MALLOC", "CVG_NO_MEM", "QCVM_NO_MEM"}
             /\ UNCHANGED <<heap, own, memerr>>
     /\ (~MallocDone /\ pc = "idle" /\ pc' \in {"loop", "ret"})
          => /\ pc' = "ret" /\ istate' = "CVODE_NO_MALLOC"
             /\ UNCHANGED <<heap, own, memerr, yout>>]_vars


(***************************************************************************)
(* C18 (as claimed).  The first call of CVode with tout equal to t0        *)
(* (functional iteration, valid arguments) returns the error TOO_CLOSE,    *)
(* a value other than ILL_INPUT, whether or not an initial step was set    *)
(* with CVodeSetInitStep.                                                  *)
(***************************************************************************)
C18_AsClaimed ==
  [][(/\ pc = "idle" /\ pc' \in {"loop", "ret"}
      /\ MallocDone /\ nst = 0 /\ iter = "FUNCTIONAL"
      /\ tout' = tn)
       => (pc' = "ret" /\ istate' = "TOO_CLOSE")]_vars


(***************************************************************************)
(* C19 (as claimed).  In every state reached by steps, CVodeSetMaxOrd and  *)
(* CVodeReInit after CVodeMalloc, the current order lies between 1 and the *)
(* maximum order: 1 <= q <= qmax.                                          *)
(***************************************************************************)
C19_AsClaimed == MallocDone => (1 <= q /\ q <= qmax)

(***************************************************************************)
(* C20.  Once CVodeMalloc has succeeded, the number of steps to wait       *)
(* before the next change of order is at least 1 whenever a call has       *)
(* returned (and between calls): CVCompleteStep counts it down and         *)
(* CVPrepareNextStep sets it back to 2 when it has reached 0.              *)
(***************************************************************************)
C20_QwaitPositive == (MallocDone /\ pc \in {"idle", "ret"}) => qwait >= 1

\* CVode returns from the step in which qwait reached 0 and the order was
\* chosen to go up
C20_Witness ==
  /\ pc = "ret" /\ istate = "SUCCESS"
  /\ nst = 2 /\ q = 1 /\ qprime = 2 /\ qwait = 2


(***************************************************************************)
(* Forced changes of order and step (BDF, functional iteration, one-step   *)
(* mode): the caller chooses a large initial step, so that the step can be *)
(* cut many times within one step, and with it a stop time just beyond the *)
(* first step; the error test fails at any attempt of                      *)
(* the first MaxNstShort steps, the order is raised and lowered by         *)
(* CVPrepareNextStep, and stability-limit detection may be on.             *)
(***************************************************************************)
NextForce ==
  \/ ~MallocDone /\ CVodeMalloc("ok")
  \/ nst = 0 /\ CVodeSetStabLimDet(TRUE)
  \/ nst = 0 /\ CVodeSetInitStep(1000)
  \/ nst = 0 /\ hin # 0 /\ CVodeSetStopTime(1050)
  \/ \E task \in {"ONE_STEP", "ONE_STEP_TSTOP"} :
       (tstopset <=> IsStop(task)) /\ CallCVode(<<2000, task, UserVec, TRUE>>)
  \/ nst < MaxNst /\ CVStepBegin
  \/ CVPredictSet(FALSE)
  \/ CVNlsFunctional(TRUE)
  \/ \E pass \in BOOLEAN :
       (pass \/ nst < MaxNstShort) /\ CVDoErrorTest(pass, EtaHalf)
  \/ \E em1 \in EtaSet, ep1 \in EtaSet, viol \in BOOLEAN :
       CVCompleteStep(em1, EtaHalf, ep1, viol)
  \/ CVodeAfterStep
  \/ CVodeReturn

SpecForce == CVodeCreate("BDF", "FUNCTIONAL") /\ [][NextForce]_vars

(***************************************************************************)
(* The numbers in the history arrays (BDF, functional iteration, one-step  *)
(* mode, with or without quadratures and simultaneous sensitivities).  At  *)
(* the head of CVode's loop the arrays hold some numbers, one of ZnSet;    *)
(* from there on the step follows them through CVAdjustParams, CVPredict,  *)
(* CVRestore, CVRescale and the forced order reduction.  The initial step  *)
(* is large, so that the step can be cut again and again.                  *)
(***************************************************************************)
MaxNstHist == 6

\* column j of a history array holds c[j + 1] units; a unit of column j is a
\* multiple of the j-th powers of the step ratios met in these runs
ZnUnit == <<1, 500, 2500, 1000>>

ZnOf(c) ==
  [i \in 1..(qmax + 1) |-> IF i <= Len(c) THEN c[i] * ZnUnit[i] ELSE 0]

ZnSet ==
  {[zn |-> ZnOf(<<1, 1, 1, 1>>), znQ |-> ZnOf(<<3, -1, 2, 1>>),
    znS |-> ZnOf(<<-2, 2, 0, -1>>)],
   [zn |-> ZnOf(<<3, -1, 2, 1>>), znQ |-> ZnOf(<<-2, 2, 0, -1>>),
    znS |-> ZnOf(<<1, 1, 1, 1>>)],
   [zn |-> ZnOf(<<-2, 2, 0, -1>>), znQ |-> ZnOf(<<0, 0, 3, 2>>),
    znS |-> ZnOf(<<5, 1, -1, 0>>)]}

\* the contents of zn, znQ and znS between two steps
CVodeHistoryIs(z) ==
  /\ pc = "loop"
  /\ zn = NoZn
  /\ zn' = z
  /\ UNCHANGED <<optVars, dqVars, winVars, gamVars, memVars, MallocDone, sensVars,
                 linVars, nordVars, callVars, stepVars, pc, api>>

NextHist ==
  \/ ~MallocDone /\ CVodeMalloc("ok")
  \/ MallocDone /\ nst = 0 /\ ~quadMallocDone /\ CVodeQuadMalloc("ok")
  \/ MallocDone /\ nst = 0 /\ ~sensMallocDone
       /\ CVodeSensMalloc(1, "SIMULTANEOUS", "ok")
  \/ nst = 0 /\ CVodeSetInitStep(1000)
  \/ CallCVode(<<200000, "ONE_STEP", UserVec, TRUE>>)
  \/ \E z \in ZnSet : CVodeHistoryIs(z)
  \/ nst < MaxNstHist /\ CVStepBegin
  \/ CVPredictSet(FALSE)
  \/ \E conv \in BOOLEAN : CVNlsFunctional(conv)
  \/ \E pass \in BOOLEAN : CVDoErrorTest(pass, EtaHalf)
  \/ \E em1 \in EtaSet, ep1 \in EtaSet :
       CVCompleteStep(em1, EtaHalf, ep1, FALSE)
  \/ CVodeAfterStep
  \/ CVodeReturn

SpecHist == CVodeCreate("BDF", "FUNCTIONAL") /\ [][NextHist]_vars

(***************************************************************************)
(* CVSensRhs1DQ, the difference-quotient right-hand side of one            *)
(* sensitivity (the default: fSDQ = TRUE, ifS = ONESENS, so that CVSensRhs *)
(* calls it once for each sensitivity).  It perturbs the caller's p[which] *)
(* around the calls of f.  dq is the position in the call in progress:     *)
(* the method chosen, the index which and the flag skipFP taken from       *)
(* plist, the perturbation chosen (Delta or Deltap), and the number nfel   *)
(* of calls of f made so far.  cv_p is the content of the caller's array,  *)
(* one of PSet.                                                            *)
(***************************************************************************)
PSet == {<<10, 20>>, <<30, 40>>}

DqMethods == {"CENTERED1", "CENTERED2", "FORWARD1", "FORWARD2"}

\* the content of the array p that the caller handed to CVodeSensMalloc
CVodeSensParamIs(pp) ==
  /\ sensMallocDone
  /\ cv_p = <<>>
  /\ cv_p' = pp
  /\ UNCHANGED <<optVars, winVars, zn, psave, dq, gamVars, memVars, MallocDone,
                 sensVars, linVars, nordVars, callVars, stepVars, pc, api>>

\* the number of calls of f that the method makes
DqCalls(method, skipFP) ==
  CASE method = "CENTERED1" -> 2
    [] method = "CENTERED2" -> IF skipFP THEN 2 ELSE 4
    [] method = "FORWARD1" -> 1
    [] method = "FORWARD2" -> IF skipFP THEN 1 ELSE 2

\* p[which] at the call number n + 1 of f, when it was cur before
DqParam(method, n, ps, d, cur) ==
  CASE method = "CENTERED1" -> IF n = 0 THEN ps + d ELSE ps - d
    [] method = "CENTERED2" ->
         IF n < 2 THEN cur ELSE IF n = 2 THEN ps + d ELSE ps - d
    [] method = "FORWARD1" -> ps + d
    [] method = "FORWARD2" -> IF n = 0 THEN cur ELSE ps + d

\* variant: p[which] is put back only where the parameter was perturbed last
DqRestored_Last(pp, which, ps, skipFP) == IF skipFP THEN pp
                                          ELSE [pp EXCEPT ![which] = ps]

\* p[which] = psave, after the switch
DqRestored(pp, which, ps, skipFP) == [pp EXCEPT ![which] = ps]

\* where CVSensRhs or CVSensRhs1 is called within a step
DqSite ==
  /\ sensi
  /\ \/ pc = "nls" /\ ism = "SIMULTANEOUS"
     \/ pc = "stgr"
     \/ pc = "stgr1"

\* entry, up to the choice of the method
CVSensRhs1DQ_Begin(which, skipFP, method, d) ==
  /\ DqSite
  /\ dq = NoDq
  /\ which \in DOMAIN cv_p
  /\ psave' = cv_p[which]
  /\ dq' = [method |-> method, which |-> which, skipFP |-> skipFP,
            Delta |-> d, nfel |-> 0]
  /\ UNCHANGED <<optVars, winVars, zn, cv_p, gamVars, memVars, MallocDone, sensVars,
                 linVars, nordVars, callVars, stepVars, pc, api>>

\* the next call of f, with the assignment to p[which] before it
CVSensRhs1DQ_F ==
  /\ dq # NoDq
  /\ dq.nfel < DqCalls(dq.method, dq.skipFP)
  /\ cv_p' = [cv_p EXCEPT ![dq.which] =
                DqParam(dq.method, dq.nfel, psave, dq.Delta, cv_p[dq.which])]
  /\ dq' = [dq EXCEPT !.nfel = dq.nfel + 1]
  /\ UNCHANGED <<optVars, winVars, zn, psave, gamVars, memVars, MallocDone, sensVars,
                 linVars, nordVars, callVars, stepVars, pc, api>>

\* the end of the call
CVSensRhs1DQ_End ==
  /\ dq # NoDq
  /\ dq.nfel = DqCalls(dq.method, dq.skipFP)
  /\ cv_p' = DqRestored(cv_p, dq.which, psave, dq.skipFP)
  /\ dq' = NoDq
  /\ UNCHANGED <<optVars, winVars, zn, psave, gamVars, memVars, MallocDone, sensVars,
                 linVars, nordVars, callVars, stepVars, pc, api>>

(* Sensitivities by difference quotients (BDF, functional iteration,      *)
(* one-step mode): the three corrector arrangements, with the calls of    *)
(* CVSensRhs1DQ they make.  Nothing else runs while a call of             *)
(* CVSensRhs1DQ is in progress.                                           *)
NextDQ ==
  \/ ~MallocDone /\ CVodeMalloc("ok")
  \/ MallocDone /\ ~sensMallocDone
       /\ \E ismIn \in Isms : CVodeSensMalloc(2, ismIn, "ok")
  \/ \E pp \in PSet : CVodeSensParamIs(pp)
  \/ dq = NoDq /\ CallCVode(<<40, "ONE_STEP", UserVec, TRUE>>)
  \/ dq = NoDq /\ nst < MaxNstShort /\ CVStepBegin
  \/ dq = NoDq /\ CVPredictSet(FALSE)
  \/ \E which \in 1..2, skipFP \in BOOLEAN, method \in DqMethods,
        d \in {1, 2} : CVSensRhs1DQ_Begin(which, skipFP, method, d)
  \/ CVSensRhs1DQ_F
  \/ CVSensRhs1DQ_End
  \/ dq = NoDq /\ \E conv \in BOOLEAN : CVNlsFunctional(conv)
  \/ dq = NoDq /\ \E pass \in BOOLEAN : CVDoErrorTest(pass, EtaHalf)
  \/ dq = NoDq /\ CVStgrNls(TRUE)
  \/ dq = NoDq /\ CVStgr1Nls(TRUE)
  \/ dq = NoDq /\ CVStgrDoErrorTest(TRUE, EtaHalf)
  \/ dq = NoDq /\ CVCompleteStep(EtaHalf, EtaHalf, EtaHalf, FALSE)
  \/ dq = NoDq /\ CVodeAfterStep
  \/ dq = NoDq /\ CVodeReturn

SpecDQ == CVodeCreate("BDF", "FUNCTIONAL") /\ [][NextDQ]_vars

(***************************************************************************)
(* Newton iteration over many steps (BDF, normal mode, with or without a   *)
(* setup routine in the linear solver, with or without staggered           *)
(* sensitivities): long enough for a setup to become MSBP steps old.       *)
(* During the first MaxNstShort steps the error test and the linear solver *)
(* may fail, the iteration may be slow or diverge and gamma may drift;     *)
(* later steps go through.                                                 *)
(***************************************************************************)
MaxNstLong == 26

NextNewt ==
  \/ ~MallocDone /\ CVodeMalloc("ok")
  \/ nst = 0 /\ \E setup \in BOOLEAN : CVLinSolAttach(setup)
  \/ nst = 0 /\ MallocDone /\ ~sensMallocDone
       /\ \E ismIn \in {"STAGGERED", "STAGGERED1"} :
            CVodeSensMalloc(1, ismIn, "ok")
  \/ \E hd \in HinChoices(200) : CVodeCall(200, "NORMAL", UserVec, TRUE, 0, hd)
  \/ nst < MaxNstLong /\ CVStepBegin
  \/ \E dg \in BOOLEAN : (~dg \/ nst < MaxNstShort) /\ CVPredictSet(dg)
  \/ \E stage \in Stages, ier \in LinRets, jc \in BOOLEAN :
       (ier = 0 \/ nst < MaxNstShort) /\ CVNlsNewtonSetup(stage, ier, jc)
  \/ \E stage \in Stages, ret \in LinRets, dcon \in DconSet :
       /\ (ret = 0 /\ dcon = "conv") \/ nst < MaxNstShort
       /\ CVNewtonIteration(stage, ret, dcon)
  \/ \E pass \in BOOLEAN :
       (pass \/ nst < MaxNstShort) /\ CVDoErrorTest(pass, EtaHalf)
  \/ CVStgrDoErrorTest(TRUE, EtaHalf)
  \/ CVCompleteStep(EtaHalf, EtaHalf, EtaHalf, FALSE)
  \/ CVodeAfterStep
  \/ CVodeReturn

SpecNewt == CVodeCreate("BDF", "NEWTON") /\ [][NextNewt]_vars

(***************************************************************************)
(* Newton iteration under a limit set by the caller (BDF, normal mode, no  *)
(* sensitivities): CVodeSetMaxNonlinIters is called before the first step. *)
(***************************************************************************)
NextIter ==
  \/ ~MallocDone /\ CVodeMalloc("ok")
  \/ nst = 0 /\ \E setup \in BOOLEAN : CVLinSolAttach(setup)
  \/ nst = 0 /\ \E v \in {0, 1, 2} : CVodeSetMaxNonlinIters(v)
  \/ \E hd \in HinChoices(40) : CVodeCall(40, "NORMAL", UserVec, TRUE, 0, hd)
  \/ nst < MaxNstShort /\ CVStepBegin
  \/ CVPredictSet(FALSE)
  \/ \E ier \in LinRets, jc \in BOOLEAN : CVNlsNewtonSetup("nls", ier, jc)
  \/ \E ret \in LinRets, dcon \in DconSet : CVNewtonIteration("nls", ret, dcon)
  \/ \E pass \in BOOLEAN : CVDoErrorTest(pass, EtaHalf)
  \/ CVCompleteStep(EtaHalf, EtaHalf, EtaHalf, FALSE)
  \/ CVodeAfterStep
  \/ CVodeReturn

SpecIter == CVodeCreate("BDF", "NEWTON") /\ [][NextIter]_vars


C22_AsClaimed ==
  [][(/\ pc' = "predict"
      /\ \/ pc = "loop" /\ nst > 0 /\ hprime # h
         \/ pc \in {"nls", "stgr", "stgr1"}
         \/ pc \in {"errtest", "errtestS"} /\ hscale' = HTimes(hscale, eta'))
       => /\ RLe(ETAMIN, eta')
          /\ RLe(eta', RInt(IF nst = 0 THEN ETAMX1 ELSE ETAMX3))]_vars


(***************************************************************************)
(* C23, as claimed: when the order is 2, a requested decrease of the order *)
(* does not take effect and the order remains 2, both when CVAdjustParams  *)
(* is asked for order 1 and at the forced reduction after more than MXNEF1 *)
(* failures of the error test.                                             *)
(***************************************************************************)
C23_AsClaimed ==
  [][(/\ q = 2
      /\ pc' = "predict"
      /\ \/ pc = "loop" /\ nst > 0 /\ hprime # h /\ qprime = 1
         \/ pc = "errtest" /\ nef' > MXNEF1)
       => q' = 2]_vars

(***************************************************************************)
(* C23, amended: when the order is 2, CVAdjustOrder(-1) leaves the history *)
(* as it is, and the callers lower the order all the same.  On both paths  *)
(* the order becomes 1 with L = 2 and qwait = 2, and every column of zn,   *)
(* znQ and znS other than column 1, which CVRescale multiplies by eta,     *)
(* keeps its value (the value CVRestore left, at the forced reduction).    *)
(***************************************************************************)
C23_DecreaseAtOrderTwo ==
  [][(/\ q = 2
      /\ pc' = "predict"
      /\ \/ pc = "loop" /\ nst > 0 /\ hprime # h /\ qprime = 1
         \/ pc = "errtest" /\ nef' > MXNEF1)
       => /\ q' = 1 /\ L' = 2 /\ qwait' = 2
          /\ zn # NoZn =>
               LET before == IF pc = "loop" THEN zn ELSE ZnRestored(zn)
               IN  /\ zn' # NoZn
                   /\ \A a \in DOMAIN zn : \A i \in DOMAIN zn[a] :
                        i # 2 => zn'[a][i] = before[a][i]]_vars

\* C23: the forced reduction from order 2 has been made on followed numbers
C23_Witness ==
  /\ pc = "predict" /\ nef > MXNEF1 /\ q = 1 /\ L = 2 /\ qwait = 2
  /\ zn # NoZn


(***************************************************************************)
(* C24, as claimed: CVPredict followed by CVRestore(saved_t) leaves every  *)
(* column of zn, znQ and znS identical to its value before CVPredict and   *)
(* sets tn to the value saved, at every order.  Checked on each CVPredict  *)
(* the step makes: CVRestore applied to what it leaves gives the history   *)
(* and the time there were before.                                         *)
(***************************************************************************)
C24_AsClaimed ==
  [][(pc = "predict" /\ pc' = "nls" /\ zn # NoZn)
       => /\ ZnRestored(zn') = zn
          /\ saved_t' = tn]_vars


C26_SetupDecision ==
  [][/\ (pc = "predict" /\ pc' = "nls" /\ iter = "NEWTON" /\ setupNonNull)
          => (callSetup' <=> \/ nst = 0
                             \/ nst >= nstlp + MSBP
                             \/ gamrat' = "FAR"
                             \/ nflag \in {"PREV_CONV_FAIL", "PREV_ERR_FAIL"}
                             \/ forceSetup)
     /\ (pc = "nls" /\ iter = "NEWTON" /\ setupNonNull /\ callSetup)
          => (nstlp' = nst /\ mcor' = 0 /\ ~callSetup')
     /\ (pc = "nls" /\ iter = "NEWTON" /\ setupNonNull /\ ~callSetup)
          => nstlp' = nstlp]_vars

\* C26: lsetup is about to be called only because the last setup is MSBP
\* steps old
C26_Witness ==
  /\ pc = "nls" /\ iter = "NEWTON" /\ setupNonNull /\ callSetup
  /\ nst = nstlp + MSBP /\ gamrat = "NEAR" /\ nflag = "FIRST_CALL"

(***************************************************************************)
(* C27, as claimed: right after every call of lsetup, by the state         *)
(* corrector or by a staggered sensitivity corrector, nstlp = nst,         *)
(* gammap = gamma, gamrat = 1 and crate = 1; and at every call of lsolve   *)
(* the last setup is fewer than MSBP steps old and gamma is within DGMAX   *)
(* of gammap.                                                              *)
(***************************************************************************)
C27_AsClaimed ==
  [][/\ (pc \in Stages /\ iter = "NEWTON" /\ callSetup)
          => /\ nstlp' = nst /\ gammap' = gamma' /\ gamrat' = "ONE"
             /\ crate' = "ONE"
     /\ (pc \in Stages /\ iter = "NEWTON" /\ ~callSetup)
          => (nst < nstlp + MSBP /\ gamrat \in {"ONE", "NEAR"})]_vars

(***************************************************************************)
(* C27, amended: the four values are recorded after every call of lsetup;  *)
(* the bounds at the calls of lsolve hold when the linear solver has a     *)
(* setup routine.                                                          *)
(***************************************************************************)
C27_AfterSetup ==
  [][/\ (pc \in Stages /\ iter = "NEWTON" /\ callSetup)
          => /\ nstlp' = nst /\ gammap' = gamma' /\ gamrat' = "ONE"
             /\ crate' = "ONE"
     /\ (pc \in Stages /\ iter = "NEWTON" /\ ~callSetup /\ setupNonNull)
          => (nst < nstlp + MSBP /\ gamrat \in {"ONE", "NEAR"})]_vars

\* C27: lsolve is about to be called by the staggered corrector on a matrix
\* set up MSBP - 1 steps ago
C27_Witness ==
  /\ pc = "stgr" /\ iter = "NEWTON" /\ ~callSetup /\ setupNonNull
  /\ nst = nstlp + MSBP - 1 /\ gammap # NoGamma

(***************************************************************************)
(* C28, as claimed: when lsolve returns a recoverable failure while jcur   *)
(* is FALSE, the corrector calls lsetup again and restarts the iteration   *)
(* from the prediction; when jcur is TRUE it returns CONV_FAIL with no     *)
(* further call of lsetup.                                                 *)
(***************************************************************************)
C28_AsClaimed ==
  [][\A stage \in Stages, dcon \in DconSet :
       CVNewtonIteration(stage, 1, dcon)
         => IF ~jcur
              THEN callSetup' /\ pc' = stage /\ mcor' = 0
              ELSE /\ ~callSetup' /\ pc' \in {"predict", "ret"}
                   /\ nflag' \in {"PREV_CONV_FAIL", "CONV_FAIL"}]_vars

(***************************************************************************)
(* C28, amended: the corrector calls lsetup again when jcur is FALSE and   *)
(* the linear solver has a setup routine; when jcur is TRUE, or the solver *)
(* has no setup routine, it returns CONV_FAIL with no further call of      *)
(* lsetup.                                                                 *)
(***************************************************************************)
C28_RetryWithSetup ==
  [][\A stage \in Stages, dcon \in DconSet :
       CVNewtonIteration(stage, 1, dcon)
         => IF ~jcur /\ setupNonNull
              THEN callSetup' /\ pc' = stage /\ mcor' = 0
              ELSE /\ ~callSetup' /\ pc' \in {"predict", "ret"}
                   /\ nflag' \in {"PREV_CONV_FAIL", "CONV_FAIL"}]_vars

\* C28: a staggered corrector is about to call lsetup again
C28_Witness ==
  /\ pc = "stgr1" /\ iter = "NEWTON" /\ callSetup /\ mcor = 0 /\ ~jcur


(***************************************************************************)
(* C29, as claimed: a corrector solve makes at most maxcor iterations,     *)
(* whatever value CVodeSetMaxNonlinIters has accepted: every pass of the   *)
(* Newton iteration on the states is at most the maxcor-th since the       *)
(* iteration was started.                                                  *)
(***************************************************************************)
C29_AsClaimed ==
  [][(pc = "nls" /\ iter = "NEWTON" /\ ~callSetup) => mcor + 1 <= maxcor]_vars


(***************************************************************************)
(* Deferred changes (BDF, functional iteration, one-step mode, with or     *)
(* without a stop time and stability-limit detection): at any step the     *)
(* corrector may fail to converge or the error test may fail, once per     *)
(* step, before the step is accepted.                                      *)
(***************************************************************************)
MaxNstDefer == 12

NextDefer ==
  \/ ~MallocDone /\ CVodeMalloc("ok")
  \/ nst = 0 /\ CVodeSetStabLimDet(TRUE)
  \/ nst = 0 /\ CVodeSetInitStep(1000)
  \/ nst = 0 /\ hin # 0 /\ CVodeSetStopTime(1050)
  \/ \E task \in {"ONE_STEP", "ONE_STEP_TSTOP"} :
       (tstopset <=> IsStop(task)) /\ CallCVode(<<2000, task, UserVec, TRUE>>)
  \/ nst < MaxNstDefer /\ CVStepBegin
  \/ CVPredictSet(FALSE)
  \/ \E conv \in BOOLEAN :
       (conv \/ (ncf = 0 /\ nef = 0)) /\ CVNlsFunctional(conv)
  \/ \E pass \in BOOLEAN :
       (pass \/ (ncf = 0 /\ nef = 0)) /\ CVDoErrorTest(pass, EtaHalf)
  \/ \E em1 \in EtaSet, ep1 \in EtaSet, viol \in BOOLEAN :
       CVCompleteStep(em1, EtaHalf, ep1, viol)
  \/ CVodeAfterStep
  \/ CVodeReturn

SpecDefer == CVodeCreate("BDF", "FUNCTIONAL") /\ [][NextDefer]_vars

(***************************************************************************)
(* C30: when a step is accepted with etamax = 1, that is after a           *)
(* convergence or error-test failure within the step, CVPrepareNextStep    *)
(* and CVBDFStab leave hprime = h, qprime = q, eta = 1 and qwait >= 2,     *)
(* and the following step, unless CVode has cut hprime back to tstop in    *)
(* between, begins with the same step size and order.                      *)
(***************************************************************************)
C30_ChangeDeferred ==
  [][/\ (pc = "complete" /\ etamax = 1)
          => /\ hprime' = h /\ qprime' = q /\ eta' = RInt(1)
             /\ qwait' >= 2
     /\ (pc = "loop" /\ pc' = "predict" /\ nst > 0 /\ eta = RInt(1)
           /\ qprime = q)
          => (h' = h /\ q' = q)]_vars

\* a step that failed its error test is about to be accepted with
\* stability-limit detection on, at an order of 3 or more, when the wait
\* for the next order change has run out
C30_Witness ==
  /\ pc = "complete" /\ etamax = 1 /\ nef > 0
  /\ sldeton /\ q >= 3 /\ qwait = 1


(***************************************************************************)
(* Stability-limit detection switched on and off (BDF, functional          *)
(* iteration, one-step mode): between the calls of CVode the caller may    *)
(* change the option with CVodeSetStabLimDet or start over with            *)
(* CVodeReInit; every attempt succeeds, and CVPrepareNextStep raises and   *)
(* lowers the order.                                                       *)
(***************************************************************************)
NextStab ==
  \/ ~MallocDone /\ CVodeMalloc("ok")
  \/ MallocDone /\ CVodeSetStabLimDet(~sldeton)
  \/ nst = 0 /\ CVodeSetInitStep(1000)
  \/ nst > 0 /\ nst < MaxNstShort /\ CVodeReInit("ok")
  \/ CallCVode(<<2000, "ONE_STEP", UserVec, TRUE>>)
  \/ nst < MaxNst /\ CVStepBegin
  \/ CVPredictSet(FALSE)
  \/ CVNlsFunctional(TRUE)
  \/ CVDoErrorTest(TRUE, EtaHalf)
  \/ \E em1 \in EtaSet, ep1 \in EtaSet, viol \in BOOLEAN :
       CVCompleteStep(em1, EtaHalf, ep1, viol)
  \/ CVodeAfterStep
  \/ CVodeReturn

SpecStab == CVodeCreate("BDF", "FUNCTIONAL") /\ [][NextStab]_vars

(***************************************************************************)
(* C31, as claimed: whenever CVBDFStab calls CVsldet (stability-limit      *)
(* detection is on, q >= 3, nscon >= q+5 and the order is not about to be  *)
(* lowered by CVPrepareNextStep, so that nscon is left standing), the five *)
(* rows of ssdat were recorded by the five most recent accepted steps, in  *)
(* that order, each at the current order and step size.                    *)
(***************************************************************************)
C31_AsClaimed ==
  [][(pc = "complete" /\ sldeton /\ q >= 3 /\ nscon + 1 >= q + 5
        /\ nscon' # 0)
       => \A i \in 1..5 : ssdat'[i] = <<nst' - (i - 1), q, h>>]_vars


(***************************************************************************)
(* C32, as claimed: every step attempt is made with |h| >= hmin, unless h  *)
(* was trimmed to land on tstop: whenever CVPredict is about to advance tn *)
(* by h, ABS(h) >= hmin or tn + h is the stop time.                        *)
(***************************************************************************)
C32_AsClaimed ==
  [][(pc = "predict" /\ pc' # "predict")
       => \/ Abs(h) >= hmin
          \/ tstopset /\ tn + h = tstop]_vars


(***************************************************************************)
(* Steps at the maximum step size (BDF, functional iteration, one-step     *)
(* mode): the caller sets an initial step and a maximum step before the    *)
(* first call; every attempt succeeds, CVPrepareNextStep raises and lowers *)
(* the order, and stability-limit detection may be on.                     *)
(***************************************************************************)
NextHmax ==
  \/ ~MallocDone /\ CVodeMalloc("ok")
  \/ nst = 0 /\ CVodeSetStabLimDet(TRUE)
  \/ nst = 0 /\ CVodeSetInitStep(1000)
  \/ nst = 0 /\ \E hmax \in {1000, 4000} : CVodeSetMaxStep(hmax)
  \/ CallCVode(<<2000, "ONE_STEP", UserVec, TRUE>>)
  \/ nst < MaxNst /\ CVStepBegin
  \/ CVPredictSet(FALSE)
  \/ CVNlsFunctional(TRUE)
  \/ CVDoErrorTest(TRUE, EtaHalf)
  \/ \E em1 \in EtaSet, ep1 \in EtaSet, viol \in BOOLEAN :
       CVCompleteStep(em1, EtaHalf, ep1, viol)
  \/ CVodeAfterStep
  \/ CVodeReturn

SpecHmax == CVodeCreate("BDF", "FUNCTIONAL") /\ [][NextHmax]_vars

(***************************************************************************)
(* C33, as claimed: an order chosen at the end of an accepted step         *)
(* (qprime # q, by CVPrepareNextStep or by CVBDFStab) is the order of the  *)
(* next step: when CVStep begins that step, q becomes qprime.              *)
(***************************************************************************)
C33_AsClaimed ==
  [][(pc = "loop" /\ pc' = "predict" /\ nst > 0 /\ qprime # q)
       => q' = qprime]_vars


(***************************************************************************)
(* C35, as claimed: a Newton corrector solve makes at most one re-setup    *)
(* with FAIL_BAD_J, whatever the linear solver does within the protocol of *)
(* return values: once lsetup has been called with convfail = FAIL_BAD_J   *)
(* and has returned 0, no pass of the iteration asks for another setup.    *)
(***************************************************************************)
C35_AsClaimed ==
  [][(pc \in Stages /\ iter = "NEWTON" /\ ~callSetup
        /\ convfail = "FAIL_BAD_J")
       => ~callSetup']_vars

(***************************************************************************)
(* C35, amended: the same for a linear solver whose lsetup, called with    *)
(* FAIL_BAD_J, leaves jcur = TRUE: after such a setup no pass of the       *)
(* iteration asks for another one; a recoverable failure then ends the     *)
(* solve.                                                                  *)
(***************************************************************************)
C35_OneResetup ==
  [][(pc \in Stages /\ iter = "NEWTON" /\ ~callSetup
        /\ convfail = "FAIL_BAD_J" /\ jcur)
       => ~callSetup']_vars

\* the iteration is about to start again after a setup with FAIL_BAD_J that
\* left the Jacobian data current, in the corrector of the sensitivities
C35_Witness ==
  /\ pc = "stgr" /\ iter = "NEWTON" /\ ~callSetup /\ mcor = 0
  /\ convfail = "FAIL_BAD_J" /\ jcur /\ lmem.fatal = "none"


(***************************************************************************)
(* Termination of a step (BDF, Newton iteration, normal mode).  The        *)
(* program is sequential: once CVode has been called, the step under way   *)
(* keeps running, which is what the fairness condition says.  The linear   *)
(* solver keeps to its contract here: a setup called with FAIL_BAD_J       *)
(* returns with jcur = TRUE.  The limits of the step are whatever their    *)
(* setters store.                                                          *)
(***************************************************************************)
InStep == pc \in {"predict", "nls", "stgr", "stgr1", "errtest", "complete"}

StepRuns ==
  \/ CVPredictSet(FALSE)
  \/ \E ier \in LinRets, jc \in BOOLEAN :
       /\ convfail = "FAIL_BAD_J" => jc
       /\ CVNlsNewtonSetup("nls", ier, jc)
  \/ \E ret \in LinRets, dcon \in DconSet : CVNewtonIteration("nls", ret, dcon)
  \/ \E pass \in BOOLEAN : CVDoErrorTest(pass, EtaHalf)
  \/ CVCompleteStep(EtaHalf, EtaHalf, EtaHalf, FALSE)

NextTerm ==
  \/ ~MallocDone /\ CVodeMalloc("ok")
  \/ nst = 0 /\ \E setup \in BOOLEAN : CVLinSolAttach(setup)
  \/ nst = 0 /\ \E v \in {0, 1, 2} : CVodeSetMaxNonlinIters(v)
  \/ nst = 0 /\ \E v \in FailLimits : CVodeSetMaxErrTestFails(v)
  \/ nst = 0 /\ \E v \in FailLimits : CVodeSetMaxConvFails(v)
  \/ \E hd \in HinChoices(40) : CVodeCall(40, "NORMAL", UserVec, TRUE, 0, hd)
  \/ nst < MaxNstShort /\ CVStepBegin
  \/ StepRuns
  \/ CVodeAfterStep
  \/ CVodeReturn

SpecTerm ==
  CVodeCreate("BDF", "NEWTON") /\ [][NextTerm]_vars /\ WF_vars(StepRuns)

(***************************************************************************)
(* C34, as claimed: every internal step terminates, whatever limits the    *)
(* setters have stored and whatever the corrector and the error test       *)
(* return: a step that is under way is left, accepted or failed.           *)
(***************************************************************************)
C34_AsClaimed == InStep ~> ~InStep


(***************************************************************************)
(* Interpolated returns (BDF, functional iteration, all four modes, in     *)
(* either direction): the initial step is large enough for the roundoff    *)
(* level of the times to be seen, and between the calls of CVode the       *)
(* caller moves tout and the stop time about; corrector and error-test     *)
(* failures occur at any attempt.                                          *)
(***************************************************************************)
MaxNstInterp == 3
InterpTimes == {33, -33}
InterpCalls == {<<t, task, UserVec, TRUE>> : t \in {40, -40}, task \in Tasks}

NextInterp ==
  \/ ~MallocDone /\ CVodeMalloc("ok")
  \/ nst = 0 /\ \E v \in {32, -32} : CVodeSetInitStep(v)
  \/ \E v \in InterpTimes : CVodeSetStopTime(v)
  \/ \E a \in InterpCalls : CallCVode(a)
  \/ nst < MaxNstInterp /\ CVStepBegin
  \/ CVPredictSet(FALSE)
  \/ \E conv \in BOOLEAN : CVNlsFunctional(conv)
  \/ \E pass \in BOOLEAN : CVDoErrorTest(pass, EtaHalf)
  \/ \E e0 \in EtaSet : CVCompleteStep(EtaHalf, e0, EtaHalf, FALSE)
  \/ CVodeAfterStep
  \/ CVodeReturn

SpecInterp == CVodeCreate("BDF", "FUNCTIONAL") /\ [][NextInterp]_vars

(***************************************************************************)
(* C36: when CVode returns SUCCESS (normal mode) or TSTOP_RETURN after a   *)
(* step, the time it interpolates at, tout or tstop, passes the test of    *)
(* CVodeGetDky: it lies in [tn - hu - tfuzz, tn + tfuzz], so the two calls *)
(* whose return value CVode discards return OKAY.                          *)
(***************************************************************************)
C36_InterpInside ==
  [][(/\ pc = "stepdone" /\ pc' = "ret"
      /\ \/ istate' = "TSTOP_RETURN"
         \/ istate' = "SUCCESS" /\ IsNormal(itask))
       => DkyOK(tret') /\ yout' = DkyVec(tret')]_vars

\* CVode has returned TSTOP_RETURN after a step that ended short of tstop,
\* within troundoff of it
C36_Witness ==
  /\ pc = "ret" /\ istate = "TSTOP_RETURN" /\ nstloc > 0
  /\ tret = tstop /\ tstop # tn /\ yout = DkyVec(tstop) /\ DkyOK(tstop)


(***************************************************************************)
(* C37, as claimed: a call of CVodeMalloc, CVodeReInit, CVodeQuadMalloc,   *)
(* CVodeQuadReInit, CVodeSensMalloc or CVodeSensReInit that returns an     *)
(* error leaves the integrator as it was: options, sensitivity             *)
(* configuration, flags, counters, history and allocated storage.          *)
(***************************************************************************)
C37_AsClaimed ==
  [][(/\ api'.fn \in {"CVodeMalloc", "CVodeReInit", "CVodeQuadMalloc",
                      "CVodeQuadReInit", "CVodeSensMalloc",
                      "CVodeSensReInit"}
      /\ api'.flag # "SUCCESS")
       => UNCHANGED <<optVars, sensVars, nordVars, numVars, MallocDone,
                      quad, quadMallocDone, abstolSalloc, stgr1alloc,
                      heap>>]_vars


(***************************************************************************)
(* C38, as claimed, after any sequence of steps and CVodeSetMaxOrd calls:  *)
(* a correction is stored in zn[qmax] only while q < qmax, so never in one *)
(* of the columns zn[0..q] in use; when CVComputeEtaqp1 reads zn[qmax] and *)
(* saved_tq5 both are those of the accepted step before; and when          *)
(* CVAdjustOrder(+1) reads zn[qmax] it holds the correction of the last    *)
(* accepted step.                                                          *)
(***************************************************************************)
C38_AsClaimed ==
  [][/\ (pc = "complete" /\ znqmax'.nst = nst + 1) => q < qmax
     /\ (pc = "complete" /\ qwait = 1 /\ etamax # 1 /\ q # qmax)
          => (znqmax = [col |-> qmax, nst |-> nst] /\ saved_tq5 = nst)
     /\ (pc = "loop" /\ pc' = "predict" /\ nst > 0 /\ hprime # h
           /\ qprime = q + 1)
          => znqmax = [col |-> qmax, nst |-> nst]]_vars

=============================================================================
